---------------------------- MODULE Spec2Model ----------------------------
(***************************************************************************)
(* Palette extraction of colorize-demo: the getPixels-based histogram      *)
(* variants (imghsl.ts, part_000, compare.ts), the quantizer variants      *)
(* (imageprocess.ts, second getColorPalette of imageprocess3.ts) and the   *)
(* k-means centroid path (detectSpotColors in imageprocess.ts).            *)
(*                                                                         *)
(* Colour abstraction.  chroma-js, delta-e, d3-color, quantize and         *)
(* ml-kmeans are libraries outside the repository.  A colour is an integer *)
(* ColorKey: its position, in tenths of a Delta-E unit, on one perceptual  *)
(* axis.  A perceptual distance is the absolute difference of two          *)
(* positions, so it is symmetric and carries one decimal digit, which is   *)
(* what Math.floor and the unfloored comparisons of the code tell apart.   *)
(* LAB values of the centroid path are kept in hundredths of a unit.       *)
(***************************************************************************)
EXTENDS Integers, Sequences, FiniteSets, TLC

(***************************************************************************)
(* Bounds of the model.                                                    *)
(***************************************************************************)
MaxSamples == 2
MaxSpotSamples == 3
MaxHist == 3
MaxNumColors == 2
MaxPalette == 2
MaxDesign == 2
MaxRequestSamples == 1
MaxAccentHist == 5
MaxValidPixelCount == 40
MaxUploads == 2

(***************************************************************************)
(* The colour space explored, with the HSL saturation and lightness (in    *)
(* hundredths) chroma reports for each colour.                             *)
(***************************************************************************)
Colors == {0, 52, 100, 126, 158, 260}
Alphas == {0, 128, 255}
Pixels == [c : Colors, a : Alphas]
(* The colours of the buffers handed to detectSpotColors.                  *)
SpotColors == {0, 52, 100, 260}
SpotPixels == [c : SpotColors, a : Alphas]
Counts == {1, 100}

Saturation(c) ==
  CASE c = 0 -> 0
    [] c = 52 -> 5
    [] c = 100 -> 50
    [] c = 126 -> 20
    [] c = 158 -> 32
    [] c = 260 -> 90
    [] c = 420 -> 60
    [] c = 580 -> 40
    [] c = 740 -> 35
    [] OTHER -> 0

Lightness(c) ==
  CASE c = 0 -> 95
    [] c = 52 -> 50
    [] c = 100 -> 50
    [] c = 126 -> 5
    [] c = 158 -> 40
    [] c = 260 -> 60
    [] OTHER -> 50

Entries == {"imghsl", "part000", "compare", "imageprocess", "imageprocess3b",
            "detectSpotColors"}
HistogramEntries == {"imghsl", "part000", "compare"}
QuantizerEntries == {"imageprocess", "imageprocess3b"}
ImageTypes == {"SpotColor", "FullColor"}

(* numColors as passed by the caller: << >> when the argument is absent.   *)
NumColorsArgs == {<< >>} \cup {<<n>> : n \in -1..MaxNumColors}

VARIABLES
  entry,              \* the entry point called
  imageType,          \* argument imageType
  numColors,          \* argument numColors (<< >> = undefined)
  pc,                 \* position in the call
  length,             \* pixels.data.length / rawPixelData.length, in bytes
  i,                  \* byte offset of the sampling loop
  nRead,              \* number of loop iterations executed
  px,                 \* the pixel read by the last loop iteration
  colorCounts,        \* Map colour -> count, in insertion order
  totalPixelCount,
  pixelArray,         \* pixelArray / filteredPixelArray, as runs of equal pixels
  palette,            \* colorMap.palette() of the quantizer
  clusteredHistogram, \* Map parent colour -> count, in insertion order
  frequentColors,     \* frequentColors / naturalColors / sortedPalette / dominantColors
  designcolors,       \* shared/designcolors, hex codes in table order
  labPixels,          \* LAB samples handed to k-means
  validPixelCount,
  clusters,           \* kmeansResult as cluster objects with population
  filteredClusters,
  mergedClusters,
  j,                  \* index of the merge loop over filteredClusters
  outcome,            \* "pending", "resolved" or "rejected"
  result,             \* the resolved palette
  call,               \* 1 for the first call, 2 for a repeated call on the same buffer
  firstResult,        \* the palette the first call resolved with
  mimetype,           \* argument mimetype, a sequence of characters
  handler,            \* the /api/process request that made the call, if any
  page                \* the page with the upload button: its refs and uploads

vars == <<entry, imageType, numColors, pc, length, i, nRead, px, colorCounts,
          totalPixelCount, pixelArray, palette, clusteredHistogram,
          frequentColors, designcolors, labPixels, validPixelCount, clusters,
          filteredClusters, mergedClusters, j, outcome, result, call,
          firstResult, mimetype, handler, page>>

(***************************************************************************)
(* Generic helpers.                                                        *)
(***************************************************************************)
Abs(x) == IF x < 0 THEN -x ELSE x

Min(a, b) == IF a < b THEN a ELSE b

Range(s) == {s[k] : k \in 1..Len(s)}

RECURSIVE SumCounts(_)
SumCounts(s) == IF s = << >> THEN 0 ELSE Head(s).count + SumCounts(Tail(s))

(* Sequences of distinct elements of S of length lo..hi.                   *)
DistinctSeqs(S, lo, hi) ==
  {s \in UNION {[1..n -> S] : n \in lo..hi} :
     \A a, b \in 1..Len(s) : a # b => s[a] # s[b]}

(* Array.prototype.slice(0, n) for n >= 0.                                 *)
Slice(s, n) == SubSeq(s, 1, Min(n, Len(s)))

(* Array.prototype.sort((a, b) => b.count - a.count): stable, descending.  *)
RECURSIVE InsertByCount(_, _)
InsertByCount(s, e) ==
  IF s = << >> THEN <<e>>
  ELSE IF Head(s).count >= e.count THEN <<Head(s)>> \o InsertByCount(Tail(s), e)
  ELSE <<e>> \o s

RECURSIVE SortByCountDesc(_)
SortByCountDesc(s) ==
  IF s = << >> THEN << >>
  ELSE InsertByCount(SortByCountDesc(SubSeq(s, 1, Len(s) - 1)), s[Len(s)])

(* An array of colours is kept as its runs: [color, count] stands for      *)
(* count consecutive elements equal to color.  Array.push and .length:     *)
PushPixel(runs, c) ==
  IF runs # << >> /\ runs[Len(runs)].color = c
  THEN [runs EXCEPT ![Len(runs)].count = @ + 1]
  ELSE Append(runs, [color |-> c, count |-> 1])

ArrayLength(runs) == SumCounts(runs)

(* Map.set(key, (Map.get(key) || 0) + n): an existing key keeps its place. *)
MapAdd(m, key, n) ==
  IF \E k \in 1..Len(m) : m[k].color = key
  THEN [k \in 1..Len(m) |->
          IF m[k].color = key THEN [m[k] EXCEPT !.count = @ + n] ELSE m[k]]
  ELSE Append(m, [color |-> key, count |-> n])

(***************************************************************************)
(* Perceptual distance.                                                    *)
(***************************************************************************)
(* chroma.deltaE(c1, c2, ...), in tenths of a unit.                        *)
DeltaE10(c1, c2) == Abs(c1 - c2)

(* Math.floor(chroma.deltaE(c1, c2, Kl, Kc, Kh)).                          *)
FloorDeltaE(c1, c2) == DeltaE10(c1, c2) \div 10

(***************************************************************************)
(* Phase 1: sampling.                                                      *)
(***************************************************************************)
(* const step = 4 * N of each sampling loop, in bytes.                     *)
StepBytes(e) == IF e = "imghsl" THEN 4 * 1 ELSE 4 * 10

ALPHA_THRESHOLD == 128

(* The strict test in every loop.                                          *)
AlphaAbove128(e, a) == a > 128

(* The alpha test of the sampling loop.                                    *)
AlphaPasses(e, a) ==
  IF e = "detectSpotColors" THEN a >= ALPHA_THRESHOLD ELSE a > 128

(* minSaturation of the photographic pre-filter, in hundredths.            *)
MinSaturation(e) == IF e = "imghsl" THEN 15 ELSE 30

(* isColorful || isTrueWhite || isTrueBlack                                *)
IsGoodPixel(e, c) ==
  \/ Saturation(c) >= MinSaturation(e)
  \/ Saturation(c) < MinSaturation(e) /\ Lightness(c) > 90
  \/ Saturation(c) < MinSaturation(e) /\ Lightness(c) < 10

(* lab(`rgb(r, g, b)`) of d3-color, in hundredths of a unit.               *)
LabOf(c) == 10 * c

(* lab(l, a, b).formatHex(): the nearest representable colour.             *)
FormatHex(l) == (l + 5) \div 10

(* Buffer lengths explored: whole strides and one pixel past a stride.     *)
DataLengths(e, n) ==
  {0} \cup {k * StepBytes(e) : k \in 1..n}
      \cup {(k - 1) * StepBytes(e) + 4 : k \in 1..n}

(***************************************************************************)
(* The quantizer (quantize package): no colour map for an empty pixel list *)
(* or a colour count outside 2..256; otherwise some palette of at most     *)
(* maxcolors colours.                                                      *)
(***************************************************************************)
QuantizeFails(pixels, maxcolors) ==
  ArrayLength(pixels) = 0 \/ maxcolors < 2 \/ maxcolors > 256

PaletteColors == {0, 100, 126, 260}

QuantizePalettes(maxcolors) ==
  DistinctSeqs(PaletteColors, 1, Min(maxcolors, MaxPalette))

DEFAULT_NUM_COLORS == 12

(* numColors = 12 default of the getColorPalette variants.                 *)
NumColorsOrDefault(nc) == IF nc = << >> THEN DEFAULT_NUM_COLORS ELSE nc[1]

(***************************************************************************)
(* Phase 2: noise-reduction clustering.                                    *)
(***************************************************************************)
(* The closeness test on the distance as computed, without Math.floor.     *)
WithinClusterThresholdUnfloored(e, c, parent) ==
  CASE e = "imghsl" -> DeltaE10(c, parent) <= 5 * 10
    [] e = "part000" -> DeltaE10(c, parent) <= 15 * 10
    [] OTHER -> DeltaE10(c, parent) <= 12 * 10

(* The closeness test of the clustering loop against one parent.           *)
WithinClusterThreshold(e, c, parent) ==
  CASE e = "imghsl" -> FloorDeltaE(c, parent) <= 5
    [] e = "part000" -> FloorDeltaE(c, parent) <= 15
    [] OTHER -> DeltaE10(c, parent) <= 12 * 10

(* Index of the close parent at the least distance; 0 if none.             *)
FindNearestParent(e, hist, c) ==
  IF \E k \in 1..Len(hist) : WithinClusterThreshold(e, c, hist[k].color)
  THEN CHOOSE k \in 1..Len(hist) :
         /\ \A m \in 1..Len(hist) :
              DeltaE10(c, hist[k].color) <= DeltaE10(c, hist[m].color)
         /\ \A m \in 1..(k - 1) :
              DeltaE10(c, hist[m].color) > DeltaE10(c, hist[k].color)
  ELSE 0

(* Index of the first parent, in creation order, that is close; 0 if none. *)
FindParent(e, hist, c) ==
  IF \E k \in 1..Len(hist) : WithinClusterThreshold(e, c, hist[k].color)
  THEN CHOOSE k \in 1..Len(hist) :
         /\ WithinClusterThreshold(e, c, hist[k].color)
         /\ \A m \in 1..(k - 1) : ~WithinClusterThreshold(e, c, hist[m].color)
  ELSE 0

(* The loop body without the addition to the parent's count.               *)
ClusterOneDiscarding(e, hist, item) ==
  IF FindParent(e, hist, item.color) # 0
  THEN hist
  ELSE Append(hist, [color |-> item.color, count |-> item.count])

(* One iteration of the loop over sortedColors.                            *)
ClusterOne(e, hist, item) ==
  LET p == FindParent(e, hist, item.color)
  IN IF p # 0
     THEN [hist EXCEPT ![p].count = @ + item.count]
     ELSE Append(hist, [color |-> item.color, count |-> item.count])

RECURSIVE ClusterFrom(_, _, _)
ClusterFrom(e, hist, items) ==
  IF items = << >> THEN hist
  ELSE ClusterFrom(e, ClusterOne(e, hist, Head(items)), Tail(items))

(* sortedColors / sortedRawColors, then the clustering loop.               *)
NoiseCluster(e, counts) == ClusterFrom(e, << >>, SortByCountDesc(counts))

(***************************************************************************)
(* Phase 3: frequency filtering.                                           *)
(***************************************************************************)
(* imghsl.ts: count >= totalPixelCount * 0.015, then sort by count.        *)
FrequentImghsl(hist, total) ==
  LET Keep(x) == x.count * 1000 >= total * 15
  IN SortByCountDesc(SelectSeq(hist, Keep))

(* part_000 with every potential accent kept.                              *)
FrequentPart000AllAccents(hist, total) ==
  LET Dominant(x) == x.count * 1000 >= total * 15
      Accent(x) == ~Dominant(x) /\ Saturation(x.color) >= 30
  IN SortByCountDesc(SelectSeq(hist, Dominant)
                     \o SortByCountDesc(SelectSeq(hist, Accent)))

(* part_000: dominant clusters plus the top maxAccentColors accents.       *)
FrequentPart000(hist, total) ==
  LET Dominant(x) == x.count * 1000 >= total * 15
      Accent(x) == ~Dominant(x) /\ Saturation(x.color) >= 30
      dominantColors == SelectSeq(hist, Dominant)
      potentialAccents == SortByCountDesc(SelectSeq(hist, Accent))
  IN SortByCountDesc(dominantColors \o Slice(potentialAccents, 3))

(* Tier 1 with 0.001 in place of 0.0001.                                   *)
KeptByTierPermille(x, total) ==
  \/ Saturation(x.color) >= 35 /\ x.count * 1000 >= total
  \/ Saturation(x.color) >= 10 /\ x.count * 1000 >= total * 5
  \/ x.count * 1000 >= total * 15

(* compare.ts: the three-tier filter, then sort by count.                  *)
KeptByTier(x, total) ==
  \/ Saturation(x.color) >= 35 /\ x.count * 10000 >= total
  \/ Saturation(x.color) >= 10 /\ x.count * 1000 >= total * 5
  \/ x.count * 1000 >= total * 15

NaturalColors(hist, total) ==
  LET Keep(x) == KeptByTier(x, total)
  IN SortByCountDesc(SelectSeq(hist, Keep))

FrequencyFilter(e, hist, total) ==
  CASE e = "imghsl" -> FrequentImghsl(hist, total)
    [] e = "part000" -> FrequentPart000(hist, total)
    [] OTHER -> NaturalColors(hist, total)

(***************************************************************************)
(* Phase 4: final clustering of the getColorPalette variants.              *)
(***************************************************************************)
(* threshold / finalThreshold of the final clustering loop.                *)
FinalThreshold(e) ==
  CASE e = "part000" -> 15
    [] e = "imageprocess" -> 10
    [] OTHER -> 20

(* The comparison with < in place of <=.                                   *)
IsCloseStrict(e, accepted, c) ==
  \E k \in 1..Len(accepted) : FloorDeltaE(c, accepted[k]) < FinalThreshold(e)

(* finalPalette.some(c => Math.floor(deltaE(color, c)) <= threshold)       *)
IsClose(e, accepted, c) ==
  \E k \in 1..Len(accepted) : FloorDeltaE(c, accepted[k]) <= FinalThreshold(e)

(* The forEach over the sorted colours: the first colour is pushed, a      *)
(* later one only when it is close to no accepted colour.                  *)
RECURSIVE FinalClusterFrom(_, _, _)
FinalClusterFrom(e, accepted, items) ==
  IF items = << >> THEN accepted
  ELSE LET c == Head(items).color
       IN IF Len(accepted) = 0 \/ ~IsClose(e, accepted, c)
          THEN FinalClusterFrom(e, Append(accepted, c), Tail(items))
          ELSE FinalClusterFrom(e, accepted, Tail(items))

FinalCluster(e, items) == FinalClusterFrom(e, << >>, items)

(* imghsl.ts Phase 4: every frequent colour is pushed, no merging.         *)
ColorsOf(items) == [k \in 1..Len(items) |-> items[k].color]

(***************************************************************************)
(* compare.ts Phases 4 and 5.                                              *)
(***************************************************************************)
(* Index of the first cleaned colour within duplicateThreshold; 0 if none. *)
FirstDuplicate(cleaned, c) ==
  IF \E k \in 1..Len(cleaned) : DeltaE10(c, cleaned[k].color) <= 5 * 10
  THEN CHOOSE k \in 1..Len(cleaned) :
         /\ DeltaE10(c, cleaned[k].color) <= 5 * 10
         /\ \A m \in 1..(k - 1) : DeltaE10(c, cleaned[m].color) > 5 * 10
  ELSE 0

RECURSIVE EliminateFrom(_, _)
EliminateFrom(cleaned, items) ==
  IF items = << >> THEN cleaned
  ELSE LET d == FirstDuplicate(cleaned, Head(items).color)
       IN IF d # 0
          THEN EliminateFrom([cleaned EXCEPT ![d].count = @ + Head(items).count],
                             Tail(items))
          ELSE EliminateFrom(Append(cleaned, Head(items)), Tail(items))

EliminateDuplicates(natural) == EliminateFrom(<< >>, natural)

(* The comparison dist <= minDist: the latest design colour on ties.       *)
ClosestDesignLast(design, c) ==
  IF design = << >> THEN << >>
  ELSE LET best == CHOOSE k \in 1..Len(design) :
                     /\ \A m \in 1..Len(design) :
                          DeltaE10(c, design[k]) <= DeltaE10(c, design[m])
                     /\ \A m \in (k + 1)..Len(design) :
                          DeltaE10(c, design[m]) > DeltaE10(c, design[k])
       IN <<design[best]>>

(* The design colour of minimum distance, the earliest on ties (dist <     *)
(* minDist); << >> when the table is empty (closestDesignHex stays null).  *)
ClosestDesign(design, c) ==
  IF design = << >> THEN << >>
  ELSE LET best == CHOOSE k \in 1..Len(design) :
                     /\ \A m \in 1..Len(design) :
                          DeltaE10(c, design[k]) <= DeltaE10(c, design[m])
                     /\ \A m \in 1..(k - 1) :
                          DeltaE10(c, design[m]) > DeltaE10(c, design[k])
       IN <<design[best]>>

(* finalCounts.set moved into the loop over designcolors: the count goes   *)
(* to every design colour that lowers minDist.                             *)
RECURSIVE AddToEach(_, _, _)
AddToEach(acc, keys, n) ==
  IF keys = << >> THEN acc
  ELSE AddToEach(MapAdd(acc, Head(keys), n), Tail(keys), n)

RECURSIVE FinalCountsInLoop(_, _, _)
FinalCountsInLoop(design, acc, cleaned) ==
  IF cleaned = << >> THEN acc
  ELSE LET c == Head(cleaned).color
           Lowers(k) == \A m \in 1..(k - 1) :
                          DeltaE10(c, design[m]) > DeltaE10(c, design[k])
           hit == SelectSeq([k \in 1..Len(design) |-> k], Lowers)
       IN FinalCountsInLoop(design,
            AddToEach(acc, [k \in 1..Len(hit) |-> design[hit[k]]],
                      Head(cleaned).count),
            Tail(cleaned))

(* finalCounts[closestDesignHex] = natural.count: assigned, not added.     *)
RECURSIVE FinalCountsAssigned(_, _, _)
FinalCountsAssigned(design, acc, cleaned) ==
  IF cleaned = << >> THEN acc
  ELSE LET d == ClosestDesign(design, Head(cleaned).color)
           n == Head(cleaned).count
       IN IF d # << >>
          THEN FinalCountsAssigned(design,
                 IF \E k \in 1..Len(acc) : acc[k].color = d[1]
                 THEN [k \in 1..Len(acc) |->
                         IF acc[k].color = d[1]
                         THEN [acc[k] EXCEPT !.count = n] ELSE acc[k]]
                 ELSE Append(acc, [color |-> d[1], count |-> n]),
                 Tail(cleaned))
          ELSE FinalCountsAssigned(design, acc, Tail(cleaned))

RECURSIVE FinalCounts(_, _, _)
FinalCounts(design, acc, cleaned) ==
  IF cleaned = << >> THEN acc
  ELSE LET d == ClosestDesign(design, Head(cleaned).color)
       IN IF d # << >>
          THEN FinalCounts(design, MapAdd(acc, d[1], Head(cleaned).count),
                           Tail(cleaned))
          ELSE FinalCounts(design, acc, Tail(cleaned))

(* +((count / totalPixelCount) * 100).toFixed(2), in hundredths of a       *)
(* percent: rounded to the nearest hundredth.                              *)
Percent(count, total) == (count * 20000 + total) \div (2 * total)

(* result.sort((a, b) => b.percent - a.percent): stable, descending.       *)
RECURSIVE InsertByPercent(_, _)
InsertByPercent(s, e) ==
  IF s = << >> THEN <<e>>
  ELSE IF Head(s).percent >= e.percent
       THEN <<Head(s)>> \o InsertByPercent(Tail(s), e)
       ELSE <<e>> \o s

(* The list as Object.keys yields it, without the sort.                    *)
KeysOrder(s) == s

RECURSIVE SortByPercentDesc(_)
SortByPercentDesc(s) ==
  IF s = << >> THEN << >>
  ELSE InsertByPercent(SortByPercentDesc(SubSeq(s, 1, Len(s) - 1)), s[Len(s)])

DesignMatch(design, cleaned, total) ==
  LET fc == FinalCounts(design, << >>, cleaned)
  IN SortByPercentDesc(
       [k \in 1..Len(fc) |->
          [hex_code |-> fc[k].color, count |-> fc[k].count,
           percent |-> Percent(fc[k].count, total)]])

(***************************************************************************)
(* The quantizer variants in SpotColor mode.                               *)
(***************************************************************************)
(* getNearestColor: distances.indexOf(Math.min(...distances)).             *)
GetNearestColor(pal, c) ==
  pal[CHOOSE k \in 1..Len(pal) :
        /\ \A m \in 1..Len(pal) : DeltaE10(c, pal[k]) <= DeltaE10(c, pal[m])
        /\ \A m \in 1..(k - 1) : DeltaE10(c, pal[m]) > DeltaE10(c, pal[k])]

RECURSIVE PaletteCounts(_, _, _)
PaletteCounts(pal, acc, pixels) ==
  IF pixels = << >> THEN acc
  ELSE PaletteCounts(pal,
                     MapAdd(acc, GetNearestColor(pal, Head(pixels).color),
                            Head(pixels).count),
                     Tail(pixels))

(* let n = 300; if (0.005 * length < n) n = Math.floor(0.005 * length)     *)
MinAppearances(len) == IF len * 5 < 300 * 1000 THEN (len * 5) \div 1000 ELSE 300

(* imageprocess.ts: sort the palette histogram, then keep counts >= n.     *)
SortedPalette(pal, pixels) ==
  LET Keep(x) == x.count >= MinAppearances(ArrayLength(pixels))
  IN SelectSeq(SortByCountDesc(PaletteCounts(pal, << >>, pixels)), Keep)

(* imageprocess3.ts (second variant): keep counts >= n, then sort.         *)
DominantColors(counts, pixels) ==
  LET Keep(x) == x.count >= MinAppearances(ArrayLength(pixels))
  IN SortByCountDesc(SelectSeq(counts, Keep))

(***************************************************************************)
(* detectSpotColors: k-means, population filter, perceptual merge.         *)
(***************************************************************************)
K_CLUSTERS_HIGH == 32

MERGE_THRESHOLD_DELTA_E == 10

(* K_CLUSTERS_HIGH clusters whatever the number of samples.                *)
ClusterCountFixed(valid) == K_CLUSTERS_HIGH

(* const k = Math.min(K_CLUSTERS_HIGH, validPixelCount)                    *)
ClusterCount(valid) == Min(K_CLUSTERS_HIGH, valid)

(* deltaE.getDeltaE00 on two LAB values, in hundredths of a unit.          *)
DeltaE00(l1, l2) == Abs(l1 - l2)

RECURSIVE SumSeq(_)
SumSeq(s) == IF s = << >> THEN 0 ELSE Head(s) + SumSeq(Tail(s))

(* The points assigned to cluster c by assignment a.                       *)
Members(points, a, c) ==
  LET In(k) == a[k] = c
  IN SelectSeq([k \in 1..Len(points) |-> k], In)

(* Centroid of cluster c: the mean of its members; an empty cluster keeps  *)
(* the data point it was seeded with.                                      *)
CentroidOf(points, a, c) ==
  LET m == Members(points, a, c)
  IN IF m = << >> THEN points[((c - 1) % Len(points)) + 1]
     ELSE SumSeq([k \in 1..Len(m) |-> points[m[k]]]) \div Len(m)

(* kmeans(labPixels, k, {initialization: "kmeans++"}): the seeding is      *)
(* random, so the result is any converged assignment: every point lies in  *)
(* a cluster whose centroid is at least as near as that of any other       *)
(* non-empty cluster.  clusters[] holds 1-based cluster indexes here.      *)
KMeansResults(points, k) ==
  {[centroids |-> [c \in 1..k |-> CentroidOf(points, a, c)], clusters |-> a] :
     a \in {b \in [1..Len(points) -> 1..k] :
              \A p \in 1..Len(points) : \A c \in Range(b) :
                 DeltaE00(points[p], CentroidOf(points, b, b[p]))
                   <= DeltaE00(points[p], CentroidOf(points, b, c))}}

(* Stage 4: cluster objects, population count, population filter.          *)
CountPopulation(r) ==
  [c \in 1..Len(r.centroids) |->
     [centroid |-> r.centroids[c], labColor |-> r.centroids[c],
      population |-> Cardinality({p \in 1..Len(r.clusters) : r.clusters[p] = c})]]

(* The comparison with > in place of >=.                                   *)
PassesPopulationStrict(c, valid) == c.population * 100 > valid

(* c.population >= validPixelCount * POPULATION_FILTER_PERCENTAGE (0.01)   *)
PassesPopulation(c, valid) == c.population * 100 >= valid

FilterPopulation(cl, valid) ==
  LET Keep(c) == PassesPopulation(c, valid)
  IN SelectSeq(cl, Keep)

(* sort((a, b) => b.population - a.population): stable, descending.        *)
RECURSIVE InsertByPopulation(_, _)
InsertByPopulation(s, e) ==
  IF s = << >> THEN <<e>>
  ELSE IF Head(s).population >= e.population
       THEN <<Head(s)>> \o InsertByPopulation(Tail(s), e)
       ELSE <<e>> \o s

RECURSIVE SortByPopulationDesc(_)
SortByPopulationDesc(s) ==
  IF s = << >> THEN << >>
  ELSE InsertByPopulation(SortByPopulationDesc(SubSeq(s, 1, Len(s) - 1)),
                          s[Len(s)])

(* delta < MERGE_THRESHOLD_DELTA_E                                         *)
WithinMerge(l1, l2) == DeltaE00(l1, l2) < MERGE_THRESHOLD_DELTA_E * 100

(* Index of the first merged cluster within the threshold; 0 if none.      *)
FirstMergeTarget(merged, cluster) ==
  IF \E k \in 1..Len(merged) : WithinMerge(cluster.labColor, merged[k].labColor)
  THEN CHOOSE k \in 1..Len(merged) :
         /\ WithinMerge(cluster.labColor, merged[k].labColor)
         /\ \A m \in 1..(k - 1) :
              ~WithinMerge(cluster.labColor, merged[m].labColor)
  ELSE 0

(* The population-weighted average written back into the merged cluster.   *)
MergeInto(target, cluster) ==
  LET totalPop == target.population + cluster.population
  IN [target EXCEPT
        !.labColor = (target.labColor * target.population
                        + cluster.labColor * cluster.population) \div totalPop,
        !.population = totalPop]

(* One iteration of the loop over filteredClusters.                        *)
MergeOne(merged, cluster) ==
  LET t == FirstMergeTarget(merged, cluster)
  IN IF t # 0 THEN [merged EXCEPT ![t] = MergeInto(merged[t], cluster)]
     ELSE Append(merged, cluster)

(* The slice taken whenever numColors is given and not negative.           *)
FinalSelectionFromZero(merged, nc) ==
  LET hexes == [k \in 1..Len(merged) |-> FormatHex(merged[k].labColor)]
  IN IF nc # << >> /\ nc[1] >= 0 THEN Slice(hexes, nc[1]) ELSE hexes

(* finalPalette: hex of every merged cluster, sliced when numColors is     *)
(* given and positive.                                                     *)
FinalSelection(merged, nc) ==
  LET hexes == [k \in 1..Len(merged) |-> FormatHex(merged[k].labColor)]
  IN IF nc # << >> /\ nc[1] # 0 /\ nc[1] > 0 THEN Slice(hexes, nc[1]) ELSE hexes

(***************************************************************************)
(* The state machine.                                                      *)
(***************************************************************************)
SPOT == "detectSpotColors"

inputs == <<entry, imageType, numColors, length, designcolors, mimetype,
            handler, page>>
loopVars == <<i, nRead, px>>
histVars == <<colorCounts, totalPixelCount, pixelArray, palette,
              clusteredHistogram, frequentColors>>
spotVars == <<labPixels, validPixelCount, clusters, filteredClusters,
              mergedClusters, j>>
callVars == <<call, firstResult>>

Resolve(r) == /\ outcome' = "resolved"
              /\ result' = r
              /\ pc' = "done"

Reject == /\ outcome' = "rejected"
          /\ result' = << >>
          /\ pc' = "done"

(***************************************************************************)
(* Mime types, as sequences of characters.                                 *)
(***************************************************************************)
ImageSlash == <<"i", "m", "a", "g", "e", "/">>
Jpeg == <<"j", "p", "e", "g">>
Jpg == <<"j", "p", "g">>
ImageJpg == ImageSlash \o Jpg
ImageJpeg == ImageSlash \o Jpeg
ImagePng == ImageSlash \o <<"p", "n", "g">>
ImageWebp == ImageSlash \o <<"w", "e", "b", "p">>

(* The mime types explored: the four accepted ones, other image types,     *)
(* types in which "jpeg" is part of a longer name or occurs twice, a type  *)
(* in upper case, and the empty string.                                    *)
Mimetypes ==
  {ImageJpg, ImageJpeg, ImagePng, ImageWebp,
   ImageSlash \o <<"g", "i", "f">>,
   ImageSlash \o <<"p">> \o Jpeg,
   ImageSlash \o Jpeg \o Jpeg,
   ImageSlash \o <<"j", "p", "e">>,
   <<"I", "M", "A", "G", "E", "/", "P", "N", "G">>,
   Jpeg,
   << >>}

(* String.prototype.replace(from, to) with a string pattern: the first     *)
(* occurrence only.                                                        *)
Replace(s, from, to) ==
  LET at == {k \in 1..(Len(s) - Len(from) + 1) :
               SubSeq(s, k, k + Len(from) - 1) = from}
  IN IF at = {} THEN s
     ELSE LET k == CHOOSE m \in at : \A n \in at : m <= n
          IN SubSeq(s, 1, k - 1) \o to \o SubSeq(s, k + Len(from), Len(s))

(* The mime type tested as it was given.                                   *)
MimeTypeAsGiven(m) == m

(* const validMimeType = mimetype.replace("jpeg", "jpg")                   *)
ValidMimeType(m) == Replace(m, Jpeg, Jpg)

(* ["image/jpg", "image/png", "image/webp"].includes(validMimeType)        *)
IsSupported(valid) == valid \in {ImageJpg, ImagePng, ImageWebp}

(* No request handler: the entry point is called directly.                 *)
NoHandler ==
  [route |-> "direct", pc |-> "none", data |-> TRUE,
   isIllustration |-> "pending", isIllustration2 |-> "pending",
   threw |-> {}, statusCode |-> 0]

(* The design-colour tables explored (shared/designcolors is imported by   *)
(* compare.ts alone).                                                      *)
DesignColors == {0, 100, 260}
DesignTables == DistinctSeqs(DesignColors, 0, MaxDesign)

Blank ==
  /\ i = 0 /\ nRead = 0 /\ px = [c |-> 0, a |-> 0]
  /\ colorCounts = << >> /\ totalPixelCount = 0 /\ pixelArray = << >>
  /\ palette = << >> /\ clusteredHistogram = << >> /\ frequentColors = << >>
  /\ labPixels = << >> /\ validPixelCount = 0 /\ clusters = << >>
  /\ filteredClusters = << >> /\ mergedClusters = << >> /\ j = 0
  /\ outcome = "pending" /\ result = << >>
  /\ call = 1 /\ firstResult = << >>

(* No page: the server code is called without the front end.              *)
NoPage == [file |-> "none", isLoading |-> FALSE, errorMessage |-> << >>,
           uploads |-> << >>]

(* A call of any entry point on a buffer of any explored length.           *)
(* getColorPaletteHSL of compare.ts takes no numColors and never reads     *)
(* imageType; it alone looks at mimetype before decoding.                  *)
Init ==
  /\ entry \in Entries
  /\ imageType \in (IF entry = "compare" THEN {"SpotColor"} ELSE ImageTypes)
  /\ numColors \in (IF entry = "compare" THEN {<< >>} ELSE NumColorsArgs)
  /\ length \in DataLengths(entry, MaxSamples)
  /\ designcolors \in (IF entry = "compare" THEN DesignTables ELSE {<< >>})
  /\ mimetype \in (IF entry = "compare" THEN Mimetypes ELSE {ImagePng})
  /\ pc = IF entry = "compare" THEN "validate" ELSE "start"
  /\ handler = NoHandler /\ page = NoPage
  /\ Blank

(* Count of the samples that passed the alpha filter.                      *)
SampleCount == IF entry = SPOT THEN validPixelCount ELSE totalPixelCount

(* A function body from which the zero-sample guard has been dropped.      *)
NoZeroSampleGuard(e, n) == FALSE

(* if (totalPixelCount === 0) / if (validPixelCount === 0): present in     *)
(* imghsl.ts, part_000, compare.ts and detectSpotColors only.              *)
ZeroSampleGuard(e, n) ==
  e \in {"imghsl", "part000", "compare", "detectSpotColors"} /\ n = 0

SamplingDone == pc = "sample" /\ i >= length

(* compare.ts: Validate Mimetype.  The throw in the async function rejects *)
(* the promise before getPixels is called.                                 *)
ValidateMimetype ==
  /\ pc = "validate" /\ entry = "compare"
  /\ IF IsSupported(ValidMimeType(mimetype))
     THEN pc' = "start" /\ UNCHANGED <<outcome, result>>
     ELSE Reject
  /\ UNCHANGED <<inputs, loopVars, histVars, spotVars, callVars>>

(* getPixels calls back with err.                                          *)
GetPixelsError ==
  /\ pc = "start" /\ entry # SPOT
  /\ Reject
  /\ UNCHANGED <<inputs, loopVars, histVars, spotVars, callVars>>

(* if (imageType === "FullColor") return [];                               *)
FullColorBypass ==
  /\ pc = "start" /\ entry = SPOT /\ imageType = "FullColor"
  /\ Resolve(<< >>)
  /\ UNCHANGED <<inputs, loopVars, histVars, spotVars, callVars>>

(* sharp(...).toBuffer() throws: caught, return [].                        *)
SharpError ==
  /\ pc = "start" /\ entry = SPOT /\ imageType # "FullColor"
  /\ Resolve(<< >>)
  /\ UNCHANGED <<inputs, loopVars, histVars, spotVars, callVars>>

(* The LAB conversion of the pixel at offset i throws inside the same try  *)
(* block: caught, return [].                                               *)
LabError ==
  /\ pc = "sample" /\ i < length /\ entry = SPOT
  /\ Resolve(<< >>)
  /\ UNCHANGED <<inputs, loopVars, histVars, spotVars, callVars>>

(* The buffer is decoded; the sampling loop starts at offset 0.            *)
DecodeOk ==
  /\ pc = "start"
  /\ entry = SPOT => imageType # "FullColor"
  /\ pc' = "sample"
  /\ UNCHANGED <<inputs, loopVars, histVars, spotVars, callVars, outcome, result>>

(* One iteration of the sampling loop: reads the pixel at offset i.        *)
SampleStep ==
  /\ pc = "sample" /\ i < length
  /\ \E p \in (IF entry = SPOT THEN SpotPixels ELSE Pixels) :
       /\ px' = p
       /\ IF ~AlphaPasses(entry, p.a)
          THEN UNCHANGED <<colorCounts, totalPixelCount, pixelArray, labPixels,
                           validPixelCount>>
          ELSE CASE entry \in {"imghsl", "part000"} ->
                      /\ pixelArray' = IF IsGoodPixel(entry, p.c)
                                       THEN PushPixel(pixelArray, p.c)
                                       ELSE pixelArray
                      /\ colorCounts' = MapAdd(colorCounts, p.c, 1)
                      /\ totalPixelCount' = totalPixelCount + 1
                      /\ UNCHANGED <<labPixels, validPixelCount>>
                 [] entry = "compare" ->
                      /\ colorCounts' = MapAdd(colorCounts, p.c, 1)
                      /\ totalPixelCount' = totalPixelCount + 1
                      /\ UNCHANGED <<pixelArray, labPixels, validPixelCount>>
                 [] entry \in QuantizerEntries ->
                      /\ pixelArray' = PushPixel(pixelArray, p.c)
                      /\ colorCounts' = MapAdd(colorCounts, p.c, 1)
                      /\ UNCHANGED <<totalPixelCount, labPixels, validPixelCount>>
                 [] OTHER ->
                      /\ labPixels' = Append(labPixels, LabOf(p.c))
                      /\ validPixelCount' = validPixelCount + 1
                      /\ UNCHANGED <<colorCounts, totalPixelCount, pixelArray>>
  /\ i' = i + StepBytes(entry)
  /\ nRead' = nRead + 1
  /\ UNCHANGED <<inputs, pc, palette, clusteredHistogram, frequentColors,
                 clusters, filteredClusters, mergedClusters, j, callVars,
                 outcome, result>>

(* return resolve([]) / return [] on zero samples.                         *)
ReturnEmpty ==
  /\ SamplingDone
  /\ ZeroSampleGuard(entry, SampleCount)
  /\ Resolve(<< >>)
  /\ UNCHANGED <<inputs, loopVars, histVars, spotVars, callVars>>

(* if (imageType !== "SpotColor"): quantize, reject without a colour map.  *)
Photographic ==
  /\ SamplingDone
  /\ ~ZeroSampleGuard(entry, SampleCount)
  /\ entry \in {"imghsl", "part000", "imageprocess3b"}
  /\ imageType # "SpotColor"
  /\ IF QuantizeFails(pixelArray, NumColorsOrDefault(numColors))
     THEN Reject /\ UNCHANGED palette
     ELSE \E pal \in QuantizePalettes(NumColorsOrDefault(numColors)) :
            palette' = pal /\ Resolve(pal)
  /\ UNCHANGED <<inputs, loopVars, colorCounts, totalPixelCount, pixelArray,
                 clusteredHistogram, frequentColors, spotVars, callVars>>

(* Phase 2 of the histogram variants.                                      *)
NoiseClustering ==
  /\ SamplingDone
  /\ ~ZeroSampleGuard(entry, SampleCount)
  /\ entry \in HistogramEntries
  /\ entry = "compare" \/ imageType = "SpotColor"
  /\ clusteredHistogram' = NoiseCluster(entry, colorCounts)
  /\ pc' = "phase3"
  /\ UNCHANGED <<inputs, loopVars, colorCounts, totalPixelCount, pixelArray,
                 palette, frequentColors, spotVars, callVars, outcome, result>>

(* Phase 3 of the histogram variants.                                      *)
FrequencyFiltering ==
  /\ pc = "phase3"
  /\ frequentColors' = FrequencyFilter(entry, clusteredHistogram, totalPixelCount)
  /\ pc' = "phase4"
  /\ UNCHANGED <<inputs, loopVars, colorCounts, totalPixelCount, pixelArray,
                 palette, clusteredHistogram, spotVars, callVars, outcome, result>>

(* naturalColors after compare.ts Phase 4: cleanedColors holds the same    *)
(* objects, so an accepted colour shows its summed count.                  *)
NaturalAfter(natural, cleaned) ==
  [k \in 1..Len(natural) |->
     IF \E m \in 1..Len(cleaned) : cleaned[m].color = natural[k].color
     THEN [natural[k] EXCEPT !.count =
             cleaned[CHOOSE m \in 1..Len(cleaned) :
                       cleaned[m].color = natural[k].color].count]
     ELSE natural[k]]

(* Phase 4 (and Phase 5 of compare.ts), then resolve.                      *)
FinalPalette(e, frequent, design, total) ==
  CASE e = "imghsl" -> ColorsOf(frequent)
    [] e = "part000" -> FinalCluster(e, frequent)
    [] OTHER -> DesignMatch(design, EliminateDuplicates(frequent), total)

FinalClustering ==
  /\ pc = "phase4"
  /\ Resolve(FinalPalette(entry, frequentColors, designcolors, totalPixelCount))
  /\ frequentColors' = IF entry = "compare"
                       THEN NaturalAfter(frequentColors,
                                         EliminateDuplicates(frequentColors))
                       ELSE frequentColors
  /\ UNCHANGED <<inputs, loopVars, colorCounts, totalPixelCount, pixelArray,
                 palette, clusteredHistogram, spotVars, callVars>>

(* imageprocess.ts: quantize first, whatever the mode.                     *)
Quantize ==
  /\ SamplingDone
  /\ entry = "imageprocess"
  /\ IF QuantizeFails(pixelArray, NumColorsOrDefault(numColors))
     THEN Reject /\ UNCHANGED palette
     ELSE \E pal \in QuantizePalettes(NumColorsOrDefault(numColors)) :
            /\ palette' = pal
            /\ IF imageType # "SpotColor"
               THEN Resolve(pal)
               ELSE pc' = "vote" /\ UNCHANGED <<outcome, result>>
  /\ UNCHANGED <<inputs, loopVars, colorCounts, totalPixelCount, pixelArray,
                 clusteredHistogram, frequentColors, spotVars, callVars>>

(* imageprocess.ts SpotColor: palette histogram, filter, final clustering. *)
VoteAndCluster ==
  /\ pc = "vote"
  /\ frequentColors' = SortedPalette(palette, pixelArray)
  /\ Resolve(FinalCluster(entry, frequentColors'))
  /\ UNCHANGED <<inputs, loopVars, colorCounts, totalPixelCount, pixelArray,
                 palette, clusteredHistogram, spotVars, callVars>>

(* imageprocess3.ts second variant, SpotColor: dominant colours, final     *)
(* clustering.                                                             *)
DominantClustering ==
  /\ SamplingDone
  /\ entry = "imageprocess3b"
  /\ imageType = "SpotColor"
  /\ frequentColors' = DominantColors(colorCounts, pixelArray)
  /\ Resolve(FinalCluster(entry, frequentColors'))
  /\ UNCHANGED <<inputs, loopVars, colorCounts, totalPixelCount, pixelArray,
                 palette, clusteredHistogram, spotVars, callVars>>

(* Stage 3 and the population count of Stage 4.                            *)
KMeans ==
  /\ SamplingDone
  /\ entry = SPOT
  /\ ~ZeroSampleGuard(entry, SampleCount)
  /\ \E r \in KMeansResults(labPixels, ClusterCount(validPixelCount)) :
       clusters' = CountPopulation(r)
  /\ pc' = "stage4"
  /\ UNCHANGED <<inputs, loopVars, histVars, labPixels, validPixelCount,
                 filteredClusters, mergedClusters, j, callVars, outcome, result>>

(* kmeans throws and nothing catches it: the promise rejects.              *)
KMeansErrorUncaught ==
  /\ SamplingDone
  /\ entry = SPOT
  /\ ~ZeroSampleGuard(entry, SampleCount)
  /\ Reject
  /\ UNCHANGED <<inputs, loopVars, histVars, spotVars, callVars>>

(* kmeans throws: caught, return [].                                       *)
KMeansError ==
  /\ SamplingDone
  /\ entry = SPOT
  /\ ~ZeroSampleGuard(entry, SampleCount)
  /\ Resolve(<< >>)
  /\ UNCHANGED <<inputs, loopVars, histVars, spotVars, callVars>>

(* The population filter; return [] when nothing is left, else sort by     *)
(* population and enter the merge loop.                                    *)
PopulationFilter ==
  /\ pc = "stage4"
  /\ LET f == FilterPopulation(clusters, validPixelCount)
     IN IF Len(f) = 0
        THEN Resolve(<< >>) /\ UNCHANGED <<filteredClusters, j>>
        ELSE /\ filteredClusters' = SortByPopulationDesc(f)
             /\ j' = 1
             /\ pc' = "merge"
             /\ UNCHANGED <<outcome, result>>
  /\ UNCHANGED <<inputs, loopVars, histVars, labPixels, validPixelCount,
                 clusters, mergedClusters, callVars>>

(* The merge loop with the cluster pushed as it is, not as a deep copy: a  *)
(* later merge into it changes the object in filteredClusters as well.     *)
MergeStepShared ==
  /\ pc = "merge" /\ j <= Len(filteredClusters)
  /\ mergedClusters' = MergeOne(mergedClusters, filteredClusters[j])
  /\ LET t == FirstMergeTarget(mergedClusters, filteredClusters[j])
     IN filteredClusters' =
          IF t = 0 THEN filteredClusters
          ELSE LET o == CHOOSE k \in 1..Len(filteredClusters) :
                          filteredClusters[k].centroid = mergedClusters[t].centroid
               IN [filteredClusters EXCEPT ![o] = mergedClusters'[t]]
  /\ j' = j + 1
  /\ UNCHANGED <<inputs, loopVars, histVars, labPixels, validPixelCount,
                 clusters, callVars, pc, outcome, result>>

(* One iteration of the merge loop.                                        *)
MergeStep ==
  /\ pc = "merge" /\ j <= Len(filteredClusters)
  /\ mergedClusters' = MergeOne(mergedClusters, filteredClusters[j])
  /\ j' = j + 1
  /\ UNCHANGED <<inputs, loopVars, histVars, labPixels, validPixelCount,
                 clusters, filteredClusters, callVars, pc, outcome, result>>

(* Sort by dominance, convert to hex, slice to numColors, return.          *)
SelectFinal ==
  /\ pc = "merge" /\ j > Len(filteredClusters)
  /\ mergedClusters' = SortByPopulationDesc(mergedClusters)
  /\ Resolve(FinalSelection(mergedClusters', numColors))
  /\ UNCHANGED <<inputs, loopVars, histVars, labPixels, validPixelCount,
                 clusters, filteredClusters, j, callVars>>

(* The caller calls detectSpotColors again with the same arguments.        *)
(* Decoding and sampling are functions of the buffer, so the second call   *)
(* reaches Stage 3 with the same labPixels.                                *)
CallAgain ==
  /\ pc = "done" /\ entry = SPOT /\ call = 1
  /\ validPixelCount > 0
  /\ call' = 2
  /\ firstResult' = result
  /\ pc' = "sample"
  /\ outcome' = "pending"
  /\ result' = << >>
  /\ clusters' = << >> /\ filteredClusters' = << >>
  /\ mergedClusters' = << >> /\ j' = 0
  /\ UNCHANGED <<inputs, loopVars, histVars, labPixels, validPixelCount>>

Next ==
  \/ ValidateMimetype
  \/ GetPixelsError \/ FullColorBypass \/ SharpError \/ DecodeOk
  \/ SampleStep \/ ReturnEmpty \/ Photographic
  \/ NoiseClustering \/ FrequencyFiltering \/ FinalClustering
  \/ Quantize \/ VoteAndCluster \/ DominantClustering
  \/ KMeans \/ PopulationFilter \/ MergeStep \/ SelectFinal
  \/ LabError \/ KMeansError

Spec == Init /\ [][Next]_vars

(***************************************************************************)
(* SpecHist: the histogram variants in SpotColor mode from the end of      *)
(* Phase 1.  The state is the one the sampling loop leaves on a buffer of  *)
(* opaque pixels that holds, colour after colour in first-seen order,      *)
(* count pixels of each histogram colour at the sampled offsets.           *)
(***************************************************************************)
Histograms ==
  UNION {{[k \in 1..Len(cs) |-> [color |-> cs[k], count |-> n[k]]] :
            n \in [1..Len(cs) -> Counts]} : cs \in DistinctSeqs(Colors, 0, MaxHist)}

GoodPixelsOf(e, hist) ==
  LET Good(x) == IsGoodPixel(e, x.color)
  IN SelectSeq(hist, Good)

InitHist ==
  /\ entry \in HistogramEntries
  /\ imageType = "SpotColor"
  /\ numColors \in (IF entry = "compare" THEN {<< >>} ELSE NumColorsArgs)
  /\ designcolors \in (IF entry = "compare" THEN DesignTables ELSE {<< >>})
  /\ colorCounts \in Histograms
  /\ totalPixelCount = SumCounts(colorCounts)
  /\ pixelArray = IF entry = "compare" THEN << >>
                  ELSE GoodPixelsOf(entry, colorCounts)
  /\ length = totalPixelCount * StepBytes(entry)
  /\ i = length
  /\ nRead = totalPixelCount
  /\ px = IF colorCounts = << >> THEN [c |-> 0, a |-> 0]
          ELSE [c |-> colorCounts[Len(colorCounts)].color, a |-> 255]
  /\ pc = "sample"
  /\ palette = << >> /\ clusteredHistogram = << >> /\ frequentColors = << >>
  /\ labPixels = << >> /\ validPixelCount = 0 /\ clusters = << >>
  /\ filteredClusters = << >> /\ mergedClusters = << >> /\ j = 0
  /\ outcome = "pending" /\ result = << >>
  /\ call = 1 /\ firstResult = << >>
  /\ mimetype = ImagePng /\ handler = NoHandler /\ page = NoPage

NextHist ==
  \/ ReturnEmpty
  \/ NoiseClustering \/ FrequencyFiltering \/ FinalClustering

SpecHist == InitHist /\ [][NextHist]_vars

(***************************************************************************)
(* SpecSpot: detectSpotColors from the end of Stage 2, called once.  The   *)
(* state is the one the sampling loop leaves on a buffer whose sampled     *)
(* pixels are all opaque.                                                  *)
(***************************************************************************)
SpotSamples == UNION {[1..n -> SpotColors] : n \in 0..MaxSpotSamples}

InitSpot ==
  /\ entry = SPOT
  /\ imageType = "SpotColor"
  /\ numColors \in NumColorsArgs
  /\ designcolors = << >>
  /\ \E cs \in SpotSamples :
       /\ labPixels = [k \in 1..Len(cs) |-> LabOf(cs[k])]
       /\ px = IF cs = << >> THEN [c |-> 0, a |-> 0]
               ELSE [c |-> cs[Len(cs)], a |-> 255]
  /\ validPixelCount = Len(labPixels)
  /\ length = validPixelCount * StepBytes(entry)
  /\ i = length
  /\ nRead = validPixelCount
  /\ pc = "sample"
  /\ colorCounts = << >> /\ totalPixelCount = 0 /\ pixelArray = << >>
  /\ palette = << >> /\ clusteredHistogram = << >> /\ frequentColors = << >>
  /\ clusters = << >> /\ filteredClusters = << >> /\ mergedClusters = << >>
  /\ j = 0
  /\ outcome = "pending" /\ result = << >>
  /\ call = 1 /\ firstResult = << >>
  /\ mimetype = ImagePng /\ handler = NoHandler /\ page = NoPage

NextSpot ==
  \/ ReturnEmpty
  \/ KMeans \/ PopulationFilter \/ MergeStep \/ SelectFinal

SpecSpot == InitSpot /\ [][NextSpot]_vars

(***************************************************************************)
(* SpecTwice: detectSpotColors called twice on the same buffer with the    *)
(* same arguments.                                                         *)
(***************************************************************************)
NextTwice == NextSpot \/ CallAgain

SpecTwice == InitSpot /\ [][NextTwice]_vars

(***************************************************************************)
(* SpecCompare: getColorPaletteHSL of compare.ts from the end of Phase 1,  *)
(* on buffers large enough for the fractions 0.0001, 0.005 and 0.015 of    *)
(* the three tiers and for two counts to round to one percent value.  The  *)
(* colours are one of saturation 0, one of 0.20 and one of 0.90, more than *)
(* 12 apart; the design table has a colour at equal distance from two of   *)
(* its entries.                                                            *)
(***************************************************************************)
TierColors == {0, 126, 260}
TierCounts == {1, 51, 4951, 5001}
TierDesignColors == {0, 252, 260}

TierHistograms ==
  UNION {{[k \in 1..Len(cs) |-> [color |-> cs[k], count |-> n[k]]] :
            n \in [1..Len(cs) -> TierCounts]} :
         cs \in DistinctSeqs(TierColors, 0, MaxHist)}

InitCompare ==
  /\ entry = "compare"
  /\ imageType = "SpotColor"
  /\ numColors = << >>
  /\ designcolors \in DistinctSeqs(TierDesignColors, 0, MaxDesign)
  /\ colorCounts \in TierHistograms
  /\ totalPixelCount = SumCounts(colorCounts)
  /\ pixelArray = << >>
  /\ length = totalPixelCount * StepBytes(entry)
  /\ i = length
  /\ nRead = totalPixelCount
  /\ px = IF colorCounts = << >> THEN [c |-> 0, a |-> 0]
          ELSE [c |-> colorCounts[Len(colorCounts)].color, a |-> 255]
  /\ pc = "sample"
  /\ palette = << >> /\ clusteredHistogram = << >> /\ frequentColors = << >>
  /\ labPixels = << >> /\ validPixelCount = 0 /\ clusters = << >>
  /\ filteredClusters = << >> /\ mergedClusters = << >> /\ j = 0
  /\ outcome = "pending" /\ result = << >>
  /\ call = 1 /\ firstResult = << >>
  /\ mimetype = ImagePng /\ handler = NoHandler /\ page = NoPage

SpecCompare == InitCompare /\ [][NextHist]_vars

(***************************************************************************)
(* SpecProcess: the /api/process handler, in the two versions of the       *)
(* repository: process.post.ts, which calls getColorPalette of imghsl.ts,  *)
(* and part_001, which calls the second getColorPalette of                 *)
(* imageprocess3.ts.  The two analyses run concurrently and settle in      *)
(* either order.                                                           *)
(***************************************************************************)
Routes == {"process.post", "part_001"}
Settled == {"true", "false", "rejected"}

(* The getColorPalette the route imports.                                  *)
Imported(route) == IF route = "process.post" THEN "imghsl" ELSE "imageprocess3b"

calleeVars == <<entry, numColors, length, designcolors, pc, loopVars, histVars,
                spotVars, callVars, outcome, result, page>>

InitProcess ==
  /\ handler \in [route : Routes, pc : {"readBody"}, data : BOOLEAN,
                   isIllustration : {"pending"}, isIllustration2 : {"pending"},
                   threw : {{}}, statusCode : {0}]
  /\ mimetype \in {<< >>, ImagePng}
  /\ entry = Imported(handler.route)
  /\ imageType = "FullColor"
  /\ numColors = << >>
  /\ length \in (IF handler.data THEN DataLengths(entry, MaxRequestSamples)
                 ELSE {0})
  /\ designcolors = << >>
  /\ pc = "idle"
  /\ page = NoPage
  /\ Blank

(* if (!data || !mimetype) throw createError({statusCode: 400})            *)
CheckBody ==
  /\ handler.pc = "readBody"
  /\ handler' = IF ~handler.data \/ mimetype = << >>
                THEN [handler EXCEPT !.pc = "responded", !.statusCode = 400]
                ELSE [handler EXCEPT !.pc = "resize"]
  /\ UNCHANGED <<calleeVars, imageType, mimetype>>

(* await sharp(buffer).resize(...).toBuffer()                              *)
Resize ==
  /\ handler.pc = "resize"
  /\ handler' = [handler EXCEPT !.pc = "allSettled"]
  /\ UNCHANGED <<calleeVars, imageType, mimetype>>

(* sharp throws: rethrown as it is by process.post.ts, as createError 500  *)
(* by part_001; the response is a 500 in both.                             *)
ResizeError ==
  /\ handler.pc = "resize"
  /\ handler' = [handler EXCEPT !.pc = "responded", !.statusCode = 500]
  /\ UNCHANGED <<calleeVars, imageType, mimetype>>

(* The callback of getPixels in an analysis.  With err it calls            *)
(* reject(false) and, there being no return, goes on to pixels.data (or    *)
(* pixels.shape) with pixels undefined: a TypeError is thrown after the    *)
(* promise has been rejected.                                              *)
ThrewAfter(threw, analysis, v) ==
  IF v = "rejected" THEN threw \cup {analysis} ELSE threw

(* analyzeImageEntropy settles: resolve(true / false) or reject(false).    *)
SettleEntropy ==
  /\ handler.pc = "allSettled" /\ handler.isIllustration = "pending"
  /\ \E v \in Settled :
       handler' = [handler EXCEPT
                     !.isIllustration = v,
                     !.threw = ThrewAfter(@, "analyzeImageEntropy", v)]
  /\ UNCHANGED <<calleeVars, imageType, mimetype>>

(* analyzeImageHistogram settles.                                          *)
SettleHistogram ==
  /\ handler.pc = "allSettled" /\ handler.isIllustration2 = "pending"
  /\ \E v \in Settled :
       handler' = [handler EXCEPT
                     !.isIllustration2 = v,
                     !.threw = ThrewAfter(@, "analyzeImageHistogram", v)]
  /\ UNCHANGED <<calleeVars, imageType, mimetype>>

(* SpotColor when either analysis says so.                                 *)
ImageTypeOfEither(a, b) ==
  IF a = "true" \/ b = "true" THEN "SpotColor" ELSE "FullColor"

(* let imageType = "FullColor"; both fulfilled => value && value2 ?        *)
(* "SpotColor" : "FullColor"                                               *)
ImageTypeOf(a, b) ==
  IF a # "rejected" /\ b # "rejected"
  THEN (IF a = "true" /\ b = "true" THEN "SpotColor" ELSE "FullColor")
  ELSE "FullColor"

(* Promise.allSettled has resolved: the classification.                    *)
Classify ==
  /\ handler.pc = "allSettled"
  /\ handler.isIllustration # "pending" /\ handler.isIllustration2 # "pending"
  /\ imageType' = ImageTypeOf(handler.isIllustration, handler.isIllustration2)
  /\ handler' = [handler EXCEPT !.pc = "classified"]
  /\ UNCHANGED <<calleeVars, mimetype>>

(* The call of getColorPalette({data, mimetype, numColors: 12, imageType}) *)
CallGetColorPalette ==
  /\ handler.pc = "classified"
  /\ handler' = [handler EXCEPT !.pc = "await"]
  /\ numColors' = <<12>>
  /\ pc' = "start"
  /\ UNCHANGED <<entry, imageType, length, designcolors, mimetype, loopVars,
                 histVars, spotVars, callVars, outcome, result, page>>

(* A handler without the FullColor test: getColorPalette is called.        *)
FullColorAccepted ==
  /\ handler.route = "process.post" /\ imageType = "FullColor"
  /\ CallGetColorPalette

(* process.post.ts: if (imageType === "FullColor") throw createError 400   *)
RejectFullColor ==
  /\ handler.pc = "classified"
  /\ handler.route = "process.post" /\ imageType = "FullColor"
  /\ handler' = [handler EXCEPT !.pc = "responded", !.statusCode = 400]
  /\ UNCHANGED <<calleeVars, imageType, mimetype>>

(* The statement after the classification: the FullColor test in           *)
(* process.post.ts, the call in part_001.                                  *)
AfterClassify ==
  \/ RejectFullColor
  \/ /\ handler.route = "process.post" => imageType # "FullColor"
     /\ CallGetColorPalette

(* getColorPalette has settled: the response, or the error of the catch.   *)
Respond ==
  /\ handler.pc = "await" /\ pc = "done"
  /\ handler' = [handler EXCEPT !.pc = "responded",
                                !.statusCode = IF outcome = "resolved"
                                               THEN 200 ELSE 500]
  /\ UNCHANGED <<calleeVars, imageType, mimetype>>

NextProcess ==
  \/ CheckBody \/ Resize \/ ResizeError
  \/ SettleEntropy \/ SettleHistogram \/ Classify
  \/ AfterClassify \/ Respond
  \/ GetPixelsError \/ DecodeOk \/ SampleStep \/ ReturnEmpty \/ Photographic
  \/ NoiseClustering \/ FrequencyFiltering \/ FinalClustering
  \/ DominantClustering

SpecProcess == InitProcess /\ [][NextProcess]_vars

(* Every continuation of the handler and of the call it awaits is run by   *)
(* the event loop once it is ready.                                        *)
FairProcess == SpecProcess /\ WF_vars(NextProcess)

(***************************************************************************)
(* SpecAccent: getColorPaletteHSL of part_000 from the end of Phase 1, on  *)
(* histograms with more than maxAccentColors saturated colours of small    *)
(* count beside a dominant one.  The colours are more than 15 apart.       *)
(***************************************************************************)
AccentColors == {0, 260, 420, 580, 740}
AccentCounts == {1, 2, 200}

InitAccent ==
  /\ entry = "part000"
  /\ imageType = "SpotColor"
  /\ numColors = << >>
  /\ designcolors = << >>
  /\ \E cs \in DistinctSeqs(AccentColors, 0, MaxAccentHist) :
       \E n \in [1..Len(cs) -> AccentCounts] :
         colorCounts = [k \in 1..Len(cs) |-> [color |-> cs[k], count |-> n[k]]]
  /\ totalPixelCount = SumCounts(colorCounts)
  /\ pixelArray = GoodPixelsOf(entry, colorCounts)
  /\ length = totalPixelCount * StepBytes(entry)
  /\ i = length
  /\ nRead = totalPixelCount
  /\ px = IF colorCounts = << >> THEN [c |-> 0, a |-> 0]
          ELSE [c |-> colorCounts[Len(colorCounts)].color, a |-> 255]
  /\ pc = "sample"
  /\ palette = << >> /\ clusteredHistogram = << >> /\ frequentColors = << >>
  /\ labPixels = << >> /\ validPixelCount = 0 /\ clusters = << >>
  /\ filteredClusters = << >> /\ mergedClusters = << >> /\ j = 0
  /\ outcome = "pending" /\ result = << >>
  /\ call = 1 /\ firstResult = << >>
  /\ mimetype = ImagePng /\ handler = NoHandler /\ page = NoPage

SpecAccent == InitAccent /\ [][NextHist]_vars

(***************************************************************************)
(* SpecFilter: detectSpotColors from the end of Stage 3 on images of a     *)
(* hundred samples and more, where 1% of the samples is a whole number of  *)
(* samples or just above one.  The samples are flat colours: one that      *)
(* fills the image and up to two of one or two samples each.  k-means was  *)
(* asked for 32 clusters and has converged to one cluster per colour, the  *)
(* other clusters being empty.                                             *)
(***************************************************************************)
FilterTotals == {100, 101, 200}
FilterColors == {0, 100, 260}

(* n samples: small[k] samples of colour cs[k + 1], the others of cs[1].   *)
FlatSamples(cs, small, n) ==
  [p \in 1..n |->
     IF p <= n - SumSeq(small) THEN LabOf(cs[1])
     ELSE IF Len(small) = 2 /\ p > n - small[2] THEN LabOf(cs[3])
     ELSE LabOf(cs[2])]

(* The assignment of each sample to the cluster of its colour.             *)
FlatAssignment(cs, points) ==
  [p \in 1..Len(points) |->
     CHOOSE c \in 1..Len(cs) : LabOf(cs[c]) = points[p]]

(* The centroids of that assignment: the colour of a cluster with samples  *)
(* is their mean; an empty cluster keeps the sample it was seeded with.    *)
FlatCentroids(cs, points, k) ==
  [c \in 1..k |-> IF c <= Len(cs) THEN LabOf(cs[c])
                  ELSE points[((c - 1) % Len(points)) + 1]]

InitFilter ==
  /\ entry = SPOT
  /\ imageType = "SpotColor"
  /\ numColors \in NumColorsArgs
  /\ designcolors = << >>
  /\ \E cs \in DistinctSeqs(FilterColors, 1, 3) :
       \E small \in [1..(Len(cs) - 1) -> {1, 2}] :
         \E n \in FilterTotals :
           /\ labPixels = FlatSamples(cs, small, n)
           /\ clusters = CountPopulation(
                [centroids |-> FlatCentroids(cs, labPixels, ClusterCount(n)),
                 clusters |-> FlatAssignment(cs, labPixels)])
           /\ px = [c |-> cs[Len(cs)], a |-> 255]
  /\ validPixelCount = Len(labPixels)
  /\ length = validPixelCount * StepBytes(entry)
  /\ i = length
  /\ nRead = validPixelCount
  /\ pc = "stage4"
  /\ colorCounts = << >> /\ totalPixelCount = 0 /\ pixelArray = << >>
  /\ palette = << >> /\ clusteredHistogram = << >> /\ frequentColors = << >>
  /\ filteredClusters = << >> /\ mergedClusters = << >>
  /\ j = 0
  /\ outcome = "pending" /\ result = << >>
  /\ call = 1 /\ firstResult = << >>
  /\ mimetype = ImagePng /\ handler = NoHandler /\ page = NoPage

NextFilter == PopulationFilter \/ MergeStep \/ SelectFinal

SpecFilter == InitFilter /\ [][NextFilter]_vars

(***************************************************************************)
(* SpecUpload: handleImageUpload of the page, in the two versions of the   *)
(* repository: index.vue (try / catch around the request, errorMessage)    *)
(* and part_002 (neither).  An upload is the chain of callbacks one change *)
(* event of the file input starts: the FileReader, the fetch of            *)
(* /api/process, the parsing of the response body and                      *)
(* fabric.Image.fromURL; uploads run concurrently.  page.uploads holds the *)
(* position of each.                                                       *)
(***************************************************************************)
UploadPages == {"index.vue", "part_002"}

(* message of an Error thrown by fetch or response.json(), "" if empty.    *)
ThrownMessages == {"", "Failed to fetch"}

(* The body of an error response; a missing field reads as "".             *)
ErrorBodies == [message : {"", "Unsupported image type"},
                statusMessage : {"", "Bad Request"}]

(* a || b on strings.                                                      *)
OrElse(a, b) == IF a # "" THEN a ELSE b

(* catch (err): isLoading.value = false; errorMessage.value = ...          *)
Catch(u, message) ==
  page' = [page EXCEPT !.isLoading = FALSE,
                       !.errorMessage = <<OrElse(message, "Failed to process image")>>,
                       !.uploads[u] = "failed"]

(* The async callback rejects and nobody awaits it.                        *)
Unhandled(u) == page' = [page EXCEPT !.uploads[u] = "failed"]

serverVars == <<entry, imageType, numColors, length, designcolors, mimetype,
                handler, pc, loopVars, histVars, spotVars, callVars, outcome,
                result>>

InitUpload ==
  /\ page \in [file : UploadPages, isLoading : {FALSE},
                errorMessage : {<< >>}, uploads : {<< >>}]
  /\ entry = "imghsl"
  /\ imageType = "SpotColor"
  /\ numColors = << >>
  /\ length = 0
  /\ designcolors = << >>
  /\ mimetype = ImagePng /\ handler = NoHandler
  /\ pc = "idle"
  /\ Blank

(* handleImageUpload with a file chosen (without one it returns at once):  *)
(* isLoading.value = true, errorMessage.value = null in index.vue, and the *)
(* read is started.                                                        *)
HandleImageUpload ==
  /\ page.file \in UploadPages
  /\ Len(page.uploads) < MaxUploads
  /\ page' = [page EXCEPT !.isLoading = TRUE,
                          !.errorMessage = << >>,
                          !.uploads = Append(@, "reading")]
  /\ UNCHANGED serverVars

(* reader.onload: errorMessage.value = null in index.vue, then the fetch.  *)
ReaderLoad ==
  /\ \E u \in 1..Len(page.uploads) :
       /\ page.uploads[u] = "reading"
       /\ page' = [page EXCEPT !.errorMessage = << >>,
                               !.uploads[u] = "fetch"]
  /\ UNCHANGED serverVars

(* The read fails: the reader fires error, for which no handler is set.    *)
ReaderError ==
  /\ \E u \in 1..Len(page.uploads) :
       /\ page.uploads[u] = "reading"
       /\ page' = [page EXCEPT !.uploads[u] = "readFailed"]
  /\ UNCHANGED serverVars

(* await fetch(...) resolves with response.ok.                             *)
FetchOk ==
  /\ \E u \in 1..Len(page.uploads) :
       /\ page.uploads[u] = "fetch"
       /\ page' = [page EXCEPT !.uploads[u] = "json"]
  /\ UNCHANGED serverVars

(* await fetch(...) resolves with an error status: isLoading.value =       *)
(* false; index.vue then awaits the error body, part_002 throws.           *)
FetchErrorStatus ==
  /\ \E u \in 1..Len(page.uploads) :
       /\ page.uploads[u] = "fetch"
       /\ page' = [page EXCEPT !.isLoading = FALSE,
                               !.uploads[u] = IF page.file = "index.vue"
                                              THEN "errorJson" ELSE "failed"]
  /\ UNCHANGED serverVars

(* await fetch(...) rejects.                                               *)
FetchThrows ==
  /\ \E u \in 1..Len(page.uploads) :
       /\ page.uploads[u] = "fetch"
       /\ IF page.file = "index.vue"
          THEN \E message \in ThrownMessages : Catch(u, message)
          ELSE Unhandled(u)
  /\ UNCHANGED serverVars

(* index.vue: await response.json() of the error response settles; msg =   *)
(* err.message || err.statusMessage || msg is thrown, or the parse error.  *)
ErrorBody ==
  /\ \E u \in 1..Len(page.uploads) :
       /\ page.uploads[u] = "errorJson"
       /\ \/ \E err \in ErrorBodies :
               Catch(u, OrElse(err.message,
                         OrElse(err.statusMessage, "Failed to process image")))
          \/ \E message \in ThrownMessages : Catch(u, message)
  /\ UNCHANGED serverVars

(* await response.json() of the OK response settles: it resolves and      *)
(* fromURL is called, or it rejects.                                       *)
Body ==
  /\ \E u \in 1..Len(page.uploads) :
       /\ page.uploads[u] = "json"
       /\ \/ page' = [page EXCEPT !.uploads[u] = "image"]
          \/ IF page.file = "index.vue"
             THEN \E message \in ThrownMessages : Catch(u, message)
             ELSE Unhandled(u)
  /\ UNCHANGED serverVars

(* The callback of fabric.Image.fromURL: the image is put on the canvas    *)
(* and isLoading.value = false.                                            *)
ImageLoaded ==
  /\ \E u \in 1..Len(page.uploads) :
       /\ page.uploads[u] = "image"
       /\ page' = [page EXCEPT !.isLoading = FALSE,
                               !.uploads[u] = "shown"]
  /\ UNCHANGED serverVars

NextUpload ==
  \/ HandleImageUpload
  \/ ReaderLoad \/ ReaderError
  \/ FetchOk \/ FetchErrorStatus \/ FetchThrows
  \/ ErrorBody \/ Body
  \/ ImageLoaded

SpecUpload == InitUpload /\ [][NextUpload]_vars

(* The browser runs every callback that is ready: a read that does not     *)
(* fail loads, a fetch and a body settle, a decoded image calls back.  The *)
(* user is not bound to start another upload.                              *)
FairUpload ==
  /\ SpecUpload
  /\ WF_vars(ReaderLoad)
  /\ WF_vars(FetchOk \/ FetchErrorStatus \/ FetchThrows)
  /\ WF_vars(ErrorBody)
  /\ WF_vars(Body)
  /\ WF_vars(ImageLoaded)

(***************************************************************************)
(* Properties.                                                             *)
(***************************************************************************)

(* The sampling loop has run to its end and no sample passed the alpha     *)
(* filter.                                                                 *)
NoSamplePassed == SamplingDone /\ SampleCount = 0 /\ ArrayLength(pixelArray) = 0

(* C1: in getColorPalette of imghsl.ts, getColorPaletteHSL of compare.ts   *)
(* and detectSpotColors, whenever the sampling loop ends with no sample    *)
(* that passed the alpha filter, the call resolves with an empty palette   *)
(* and does not reject, in every mode.                                     *)
C1_ZeroSamplesResolveEmpty ==
  [][(NoSamplePassed /\ entry \in {"imghsl", "compare", SPOT})
       => (pc' = "done" /\ outcome' = "resolved" /\ result' = << >>)]_vars

(* C1 witness: imghsl.ts in FullColor mode has read pixels, none passed,   *)
(* and the call has resolved with the empty palette.                       *)
C1_Witness ==
  /\ entry = "imghsl" /\ imageType = "FullColor"
  /\ pc = "done" /\ nRead > 0 /\ totalPixelCount = 0
  /\ outcome = "resolved" /\ result = << >>

(* C2: in getColorPalette of imageprocess.ts and the second getColorPalette*)
(* of imageprocess3.ts, whenever the sampling loop ends with no sample     *)
(* that passed the alpha filter, the call returns an empty palette and     *)
(* never an error.                                                         *)
C2_UnguardedResolveEmpty ==
  [][(NoSamplePassed /\ entry \in QuantizerEntries)
       => (pc' = "done" /\ outcome' = "resolved" /\ result' = << >>)]_vars

(* C3: in SpotColor mode the histogram-based getColorPalette (imghsl.ts,   *)
(* part_000) called with numColors = N > 0 returns at most N entries.      *)
C3_AtMostNumColors ==
  (/\ entry \in {"imghsl", "part000"} /\ imageType = "SpotColor"
   /\ pc = "done" /\ outcome = "resolved"
   /\ numColors # << >> /\ numColors[1] > 0)
    => Len(result) <= numColors[1]

(* detectSpotColors has run through the merge loop and returned.           *)
SpotReturned ==
  entry = SPOT /\ pc = "done" /\ outcome = "resolved" /\ mergedClusters # << >>

(* C4: detectSpotColors returns, of its M merged clusters sorted by        *)
(* population descending, the first min(numColors, M) in that order when   *)
(* numColors is given and positive, and all M when numColors is absent,    *)
(* zero or negative.                                                       *)
C4_FinalSelection ==
  SpotReturned =>
    LET M == Len(mergedClusters)
        n == IF numColors # << >> /\ numColors[1] > 0
             THEN Min(numColors[1], M) ELSE M
    IN /\ \A k \in 1..(M - 1) :
            mergedClusters[k].population >= mergedClusters[k + 1].population
       /\ Len(result) = n
       /\ \A k \in 1..n : result[k] = FormatHex(mergedClusters[k].labColor)

(* C4 witness: three merged clusters, numColors = 2, two colours returned. *)
C4_Witness ==
  /\ SpotReturned /\ numColors = <<2>>
  /\ Len(mergedClusters) = 3 /\ Len(result) = 2

(* The call went through a final clustering loop.                          *)
FinalClustered ==
  /\ entry \in {"part000", "imageprocess", "imageprocess3b"}
  /\ imageType = "SpotColor" /\ pc = "done" /\ outcome = "resolved"

(* C5: in the palette returned by a final clustering loop (part_000,       *)
(* imageprocess.ts, second variant of imageprocess3.ts) every two colours  *)
(* have a floored distance above the final threshold, hence at least the   *)
(* threshold: none was appended while an accepted colour had               *)
(* floor(distance) <= threshold.                                           *)
C5_FinalPaletteSeparated ==
  FinalClustered =>
    \A k, m \in 1..Len(result) :
       k # m => /\ FloorDeltaE(result[k], result[m]) >= FinalThreshold(entry)
                /\ ~(FloorDeltaE(result[k], result[m]) <= FinalThreshold(entry))

(* C5 witness: imageprocess.ts returned two colours 12.6 apart (threshold  *)
(* 10).                                                                    *)
C5_Witness ==
  /\ FinalClustered /\ entry = "imageprocess"
  /\ Len(result) = 2 /\ FloorDeltaE(result[1], result[2]) = 12

(* C6: when the merge loop of detectSpotColors has finished, no two merged *)
(* clusters are within MERGE_THRESHOLD_DELTA_E of each other.              *)
C6_MergedSeparated ==
  (entry = SPOT /\ pc = "merge" /\ j > Len(filteredClusters)) =>
    \A k, m \in 1..Len(mergedClusters) :
       k # m => ~WithinMerge(mergedClusters[k].labColor,
                             mergedClusters[m].labColor)

(* C7: a second call of detectSpotColors on the same buffer with the same  *)
(* arguments returns the palette the first call returned.                  *)
C7_SameResultTwice ==
  (call = 2 /\ pc = "done") => result = firstResult

(* C8: in the list returned by getColorPaletteHSL of compare.ts the sum of *)
(* the counts is at most totalPixelCount, and so is every single count.    *)
C8_CountsWithinTotal ==
  (entry = "compare" /\ pc = "done" /\ outcome = "resolved") =>
    /\ SumCounts(result) <= totalPixelCount
    /\ \A k \in 1..Len(result) : result[k].count <= totalPixelCount

(* C8 witness: two natural colours were matched to one design colour,      *)
(* whose count is the whole of totalPixelCount.                            *)
C8_Witness ==
  /\ entry = "compare" /\ pc = "done" /\ outcome = "resolved"
  /\ Len(frequentColors) = 2 /\ Len(result) = 1
  /\ result[1].count = totalPixelCount

(* Number of samples the loop has taken into the histogram or the sample   *)
(* list.                                                                   *)
Contributions ==
  CASE entry = SPOT -> Len(labPixels)
    [] entry \in QuantizerEntries -> ArrayLength(pixelArray)
    [] OTHER -> SumCounts(colorCounts)

(* The offsets 0, stride, 2*stride, ... below the buffer length.           *)
SampledOffsets == {o \in 0..(length - 1) : o % StepBytes(entry) = 0}

(* The alpha test as each loop has it, and the strict test in every loop.  *)
KeptAsCoded(a) == IF entry = SPOT THEN a >= 128 ELSE a > 128

KeptAbove128(a) == a > 128

(* A step of the sampling loop reads the pixel at a multiple of the stride *)
(* below the buffer length, the pixel contributes exactly when Kept holds  *)
(* of its alpha, and the loop ends when every such offset has been read.   *)
SamplingRule(Kept(_)) ==
  i' # i =>
    /\ pc = "sample" /\ i \in SampledOffsets
    /\ i' = i + StepBytes(entry)
    /\ Contributions' = Contributions + (IF Kept(px'.a) THEN 1 ELSE 0)
    /\ i' >= length => nRead' = Cardinality(SampledOffsets)

(* C9 as the code has it: the pixels that contribute are those at the      *)
(* multiples of the stride below the buffer length whose alpha is above    *)
(* 128 in the getPixels-based loops, and at least 128 in detectSpotColors. *)
C9_SamplingRule == [][SamplingRule(KeptAsCoded)]_vars

(* C9 witness: detectSpotColors has read one pixel of alpha 128 and taken  *)
(* it into labPixels.                                                      *)
C9_Witness ==
  /\ entry = SPOT /\ pc = "sample"
  /\ nRead = 1 /\ px.a = 128 /\ validPixelCount = 1 /\ Len(labPixels) = 1

(* C9 as stated: in every sampling loop, detectSpotColors included, the    *)
(* pixels that contribute are those at the multiples of the stride below   *)
(* the buffer length whose alpha is strictly greater than 128.             *)
C9_StrictEverywhere == [][SamplingRule(KeptAbove128)]_vars

(* The place of each parent's colour in sortedColors.                      *)
ParentPositions(sorted, parents) ==
  [q \in 1..Len(parents) |->
     CHOOSE k \in 1..Len(sorted) : sorted[k].color = parents[q].color]

(* For each entry k of sortedColors, the parents that exist when it is     *)
(* taken and are within the threshold of it, itself included if it is a    *)
(* parent.                                                                 *)
CloseParents(sorted, parents, pos) ==
  [k \in 1..Len(sorted) |->
     {q \in 1..Len(parents) :
        /\ pos[q] <= k
        /\ WithinClusterThreshold(entry, sorted[k].color, parents[q].color)}]

(* The earliest-created of them; 0 if there is none.                       *)
Owners(close) ==
  [k \in DOMAIN close |->
     IF close[k] = {} THEN 0
     ELSE CHOOSE q \in close[k] : \A r \in close[k] : q <= r]

(* C10: the noise clustering takes the histogram entries in count-         *)
(* descending order; an entry becomes a parent exactly when no parent      *)
(* created before it is within the threshold, and otherwise its count goes *)
(* to the earliest-created parent within the threshold, whether or not a   *)
(* later parent is closer.  So a dominant colour and a rarer near-         *)
(* duplicate give one parent, keyed by the dominant colour, with the sum.  *)
C10_FirstParentWins ==
  (entry \in HistogramEntries /\ pc = "phase3") =>
    LET sorted == SortByCountDesc(colorCounts)
        parents == clusteredHistogram
        pos == ParentPositions(sorted, parents)
        close == CloseParents(sorted, parents, pos)
        owner == Owners(close)
    IN /\ \A q \in 1..Len(parents) :
            \E k \in 1..Len(sorted) : sorted[k].color = parents[q].color
       /\ \A q, r \in 1..Len(parents) : q < r => pos[q] < pos[r]
       /\ \A k \in 1..Len(sorted) :
            /\ close[k] # {}
            /\ (\E q \in 1..Len(parents) : pos[q] = k)
                 <=> ~\E q \in close[k] : pos[q] < k
       /\ \A q \in 1..Len(parents) :
            parents[q].count =
              SumSeq([k \in 1..Len(sorted) |->
                        IF owner[k] = q THEN sorted[k].count ELSE 0])
       /\ (/\ Len(sorted) = 2
           /\ WithinClusterThreshold(entry, sorted[2].color, sorted[1].color))
            => parents = <<[color |-> sorted[1].color,
                            count |-> sorted[1].count + sorted[2].count]>>

(* C10 witness: an entry went to the earliest parent within the threshold  *)
(* although a parent created later is strictly closer to it.               *)
C10_Witness ==
  /\ entry = "imghsl" /\ pc = "phase3"
  /\ LET sorted == SortByCountDesc(colorCounts)
         parents == clusteredHistogram
         pos == ParentPositions(sorted, parents)
         close == CloseParents(sorted, parents, pos)
     IN \E k \in 1..Len(sorted) : \E q, r \in close[k] :
          /\ q < r /\ pos[r] < k
          /\ DeltaE10(sorted[k].color, parents[r].color)
               < DeltaE10(sorted[k].color, parents[q].color)
          /\ parents[q].count = sorted[pos[q]].count + sorted[k].count
          /\ parents[r].count = sorted[pos[r]].count

(* Histogram entries by count descending, equal counts by ColorKey         *)
(* ascending.                                                              *)
RECURSIVE InsertByCountThenKey(_, _)
InsertByCountThenKey(s, e) ==
  IF s = << >> THEN <<e>>
  ELSE IF \/ Head(s).count > e.count
          \/ Head(s).count = e.count /\ Head(s).color < e.color
       THEN <<Head(s)>> \o InsertByCountThenKey(Tail(s), e)
       ELSE <<e>> \o s

RECURSIVE SortByCountThenKey(_)
SortByCountThenKey(s) ==
  IF s = << >> THEN << >>
  ELSE InsertByCountThenKey(SortByCountThenKey(Tail(s)), Head(s))

(* The same histogram with its colours first seen in any other order.      *)
FirstSeenOrders(s) ==
  {[k \in 1..Len(s) |-> s[f[k]]] :
     f \in {g \in [1..Len(s) -> 1..Len(s)] :
              \A a, b \in 1..Len(s) : a # b => g[a] # g[b]}}

(* C11: the noise clustering takes entries of equal count in ascending     *)
(* ColorKey order, whatever the order in which the colours were first      *)
(* seen; so the same colour multiset first seen in another order yields    *)
(* the same parents with the same counts.                                  *)
C11_TiesByColorKey ==
  (entry \in HistogramEntries /\ pc = "phase3") =>
    /\ Range(clusteredHistogram)
         = Range(ClusterFrom(entry, << >>, SortByCountThenKey(colorCounts)))
    /\ \A other \in FirstSeenOrders(colorCounts) :
         Range(NoiseCluster(entry, other)) = Range(clusteredHistogram)

(* The clustering loop with the parent's colour replaced, at each merge,   *)
(* by the population-weighted average of the parent and the merged entry.  *)
RECURSIVE AveragedClusterFrom(_, _, _)
AveragedClusterFrom(e, hist, items) ==
  IF items = << >> THEN hist
  ELSE LET item == Head(items)
           p == FindParent(e, hist, item.color)
           next ==
             IF p # 0
             THEN [hist EXCEPT ![p] =
                     [color |-> (@.color * @.count + item.color * item.count)
                                  \div (@.count + item.count),
                      count |-> @.count + item.count]]
             ELSE Append(hist, [color |-> item.color, count |-> item.count])
       IN AveragedClusterFrom(e, next, Tail(items))

(* C12: in the histogram path, a parent into which an entry is merged      *)
(* takes the population-weighted average of the merged colours as its      *)
(* representative colour, not one of the original colours.                 *)
C12_WeightedRepresentative ==
  (entry \in HistogramEntries /\ pc = "phase3") =>
    clusteredHistogram
      = AveragedClusterFrom(entry, << >>, SortByCountDesc(colorCounts))

(* C13: in Phase 3 of compare.ts a clustered entry of saturation s and     *)
(* fraction pct = count / totalPixelCount is kept if and only if           *)
(* (s >= 0.35 and pct >= 0.0001) or (s >= 0.10 and pct >= 0.005) or        *)
(* pct >= 0.015; a kept entry is in naturalColors exactly once with its    *)
(* clustered count, and nothing else is; so colours of saturation 0.5 at   *)
(* 90%, 9% and 1% are all kept.                                            *)
C13_ThreeTierFilter ==
  (entry = "compare" /\ pc = "phase4") =>
    LET total == totalPixelCount
        Tier(x) ==
          \/ Saturation(x.color) >= 35 /\ x.count * 10000 >= total
          \/ Saturation(x.color) >= 10 /\ x.count * 1000 >= 5 * total
          \/ x.count * 1000 >= 15 * total
        Places(x) == {m \in 1..Len(frequentColors) :
                        frequentColors[m].color = x.color}
    IN /\ \A k \in 1..Len(clusteredHistogram) :
            LET x == clusteredHistogram[k]
            IN /\ Tier(x) <=> Places(x) # {}
               /\ Tier(x) => /\ Cardinality(Places(x)) = 1
                              /\ \A m \in Places(x) : frequentColors[m] = x
       /\ \A m \in 1..Len(frequentColors) :
            frequentColors[m] \in Range(clusteredHistogram)
       /\ \A n \in {90, 9, 1} : KeptByTier([color |-> 100, count |-> n], 100)

(* C13 witness: an entry of saturation 0.90 and fraction below 0.005 is    *)
(* kept by the first tier alone, and an entry of saturation 0.20 and the   *)
(* same count is discarded.                                                *)
C13_Witness ==
  /\ entry = "compare" /\ pc = "phase4"
  /\ \E k, m \in 1..Len(clusteredHistogram) :
       /\ clusteredHistogram[k] = [color |-> 260, count |-> 1]
       /\ clusteredHistogram[m] = [color |-> 126, count |-> 1]
       /\ 1000 < 5 * totalPixelCount
       /\ clusteredHistogram[k] \in Range(frequentColors)
       /\ clusteredHistogram[m] \notin Range(frequentColors)

(* C14: the list returned by getColorPaletteHSL of compare.ts is in non-   *)
(* increasing order of percent, the count as a percentage of the pixels    *)
(* rounded to two decimals.                                                *)
C14_OrderedByPercent ==
  (entry = "compare" /\ pc = "done" /\ outcome = "resolved") =>
    \A k \in 1..(Len(result) - 1) : result[k].percent >= result[k + 1].percent

(* C14 witness: the design colour matched second, by two surviving         *)
(* colours, was moved ahead of the one matched first.                      *)
C14_Witness ==
  /\ entry = "compare" /\ pc = "done" /\ outcome = "resolved"
  /\ Len(frequentColors) = 3 /\ Len(result) = 2
  /\ result[2].hex_code = ClosestDesign(designcolors, frequentColors[1].color)[1]
  /\ result[1].count = frequentColors[2].count + frequentColors[3].count
  /\ result[1].percent > result[2].percent

(* C14 as stated: the list returned is in non-increasing order of count.   *)
C14_OrderedByCount ==
  (entry = "compare" /\ pc = "done" /\ outcome = "resolved") =>
    \A k \in 1..(Len(result) - 1) : result[k].count >= result[k + 1].count

(* Phase 5 of compare.ts as a relation between cleanedColors, the design   *)
(* table and the list returned.                                            *)
DesignSnap(cleaned, design, total, out) ==
  LET Nearest(c) ==
        design[CHOOSE k \in 1..Len(design) :
                 \A m \in 1..Len(design) :
                    \/ DeltaE10(c, design[k]) < DeltaE10(c, design[m])
                    \/ DeltaE10(c, design[k]) = DeltaE10(c, design[m]) /\ k <= m]
      Snapped(d) == {m \in 1..Len(cleaned) : Nearest(cleaned[m].color) = d}
      Total(d) == SumSeq([m \in 1..Len(cleaned) |->
                            IF m \in Snapped(d) THEN cleaned[m].count ELSE 0])
  IN /\ \A k, m \in 1..Len(out) : k # m => out[k].hex_code # out[m].hex_code
     /\ \A k \in 1..Len(out) : out[k].hex_code \in Range(design)
     /\ \A d \in Range(design) :
          IF Snapped(d) = {}
          THEN \A k \in 1..Len(out) : out[k].hex_code # d
          ELSE \E k \in 1..Len(out) :
                 /\ out[k].hex_code = d
                 /\ out[k].count = Total(d)
                 /\ 2 * total * out[k].percent <= 20000 * Total(d) + total
                 /\ 20000 * Total(d) + total < 2 * total * (out[k].percent + 1)

(* C15: Phase 5 of compare.ts replaces every surviving colour by the       *)
(* design colour of minimum distance, the earliest in table order on       *)
(* ties; the counts of the colours that map to one design colour are       *)
(* summed into one entry, each design colour appears at most once, and     *)
(* percent is count / totalPixelCount * 100 rounded to two decimals.       *)
C15_DesignSnap ==
  [][(entry = "compare" /\ pc = "phase4")
       => DesignSnap(EliminateDuplicates(frequentColors), designcolors,
                     totalPixelCount, result')]_vars

(* C15 witness: two surviving colours, one of them at equal distance from  *)
(* two design colours, were summed into the earlier of the two.            *)
C15_Witness ==
  /\ entry = "compare" /\ pc = "done" /\ outcome = "resolved"
  /\ designcolors = <<0, 252>>
  /\ Len(frequentColors) = 2
  /\ \E k \in 1..2 : frequentColors[k].color = 126
  /\ \E k \in 1..2 : frequentColors[k].color = 0
  /\ Len(result) = 1 /\ result[1].hex_code = 0
  /\ result[1].count = totalPixelCount /\ result[1].percent = 10000

(* C16: detectSpotColors never rejects.  A failure of the decoding, of the *)
(* LAB conversion or of k-means ends the call at once with the empty       *)
(* palette: the population filter and the merge loop have not run.         *)
C16_FailuresResolveEmpty ==
  [][entry = SPOT =>
       /\ outcome' # "rejected"
       /\ (pc \in {"start", "sample"} /\ pc' = "done") =>
            /\ outcome' = "resolved" /\ result' = << >>
            /\ filteredClusters' = << >> /\ mergedClusters' = << >>
            /\ j' = 0]_vars

(* C16 witness: the sampling loop had run to the end of the buffer with    *)
(* samples accepted, k-means threw, and the call resolved to the empty     *)
(* palette with no cluster counted, filtered or merged.                    *)
C16_Witness ==
  /\ entry = SPOT /\ pc = "done" /\ outcome = "resolved"
  /\ i >= length /\ validPixelCount > 0
  /\ clusters = << >> /\ filteredClusters = << >> /\ mergedClusters = << >>
  /\ result = << >>

(* C17: a quantizer failure in a getColorPalette variant never reaches     *)
(* the caller as a rejected promise, in FullColor as in SpotColor mode:    *)
(* no step taken after the buffer was decoded rejects.                     *)
C17_QuantizerRecovered ==
  [][(entry \in {"imghsl", "part000", "imageprocess", "imageprocess3b"}
        /\ pc = "sample")
       => outcome' # "rejected"]_vars

(* C19: getColorPaletteHSL of compare.ts rejects, before any decoding, for *)
(* every mimetype other than image/jpg, image/jpeg, image/png and          *)
(* image/webp, and goes on to the decoding for each of these four.         *)
C19_MimetypeGate ==
  [][(entry = "compare" /\ pc = "validate") =>
       IF mimetype \in {ImageJpg, ImageJpeg, ImagePng, ImageWebp}
       THEN pc' = "start" /\ outcome' = "pending"
       ELSE pc' = "done" /\ outcome' = "rejected" /\ nRead' = 0]_vars

(* C19 witness: a call with a mimetype that contains "jpeg" but is not     *)
(* image/jpeg was rejected with no pixel read.                             *)
C19_Witness ==
  /\ entry = "compare" /\ pc = "done" /\ outcome = "rejected"
  /\ mimetype = ImageSlash \o <<"p">> \o Jpeg
  /\ nRead = 0

(* C18: /api/process sets imageType to SpotColor if and only if both       *)
(* analyzeImageEntropy and analyzeImageHistogram were fulfilled with true, *)
(* and to FullColor otherwise, in whichever order the two settled.         *)
C18_SpotColorIffBothTrue ==
  (handler.route \in Routes /\ handler.pc \in {"classified", "await", "responded"}
     /\ handler.isIllustration # "pending")
    => /\ imageType \in ImageTypes
       /\ imageType = "SpotColor" <=>
            (handler.isIllustration = "true" /\ handler.isIllustration2 = "true")

(* C18 witness: the entropy analysis was fulfilled with true, the          *)
(* histogram analysis rejected, and the request was classified FullColor.  *)
C18_Witness ==
  /\ handler.route \in Routes /\ handler.pc = "classified"
  /\ handler.isIllustration = "true" /\ handler.isIllustration2 = "rejected"
  /\ imageType = "FullColor"

(* The request of process.post.ts has been classified.                     *)
Classified(type) ==
  /\ handler.route = "process.post"
  /\ handler.pc \in {"classified", "await", "responded"}
  /\ handler.isIllustration # "pending"
  /\ imageType = type

(* C20: in process.post.ts a request classified FullColor ends with a 400  *)
(* error and getColorPalette is never invoked for it; getColorPalette is   *)
(* invoked only after both analyses have settled, and only with imageType  *)
(* SpotColor.                                                              *)
C20_FullColorNeverAnalysed ==
  /\ [](Classified("FullColor") =>
          /\ pc = "idle"
          /\ handler.pc = "responded" => handler.statusCode = 400)
  /\ []((handler.route = "process.post" /\ pc # "idle") =>
          /\ handler.isIllustration \in Settled
          /\ handler.isIllustration2 \in Settled
          /\ imageType = "SpotColor")
  /\ (Classified("FullColor") ~> (handler.pc = "responded" /\ handler.statusCode = 400))

(* C20 witness: a request of process.post.ts classified FullColor, one     *)
(* analysis having said false, was answered 400 with no call made.         *)
C20_Witness ==
  /\ Classified("FullColor")
  /\ handler.isIllustration = "true" /\ handler.isIllustration2 = "false"
  /\ handler.pc = "responded" /\ handler.statusCode = 400
  /\ pc = "idle" /\ nRead = 0

(* C21: an analysis whose pixel decoding fails settles as rejected and     *)
(* executes no further step that reads the missing pixel data; the other   *)
(* analysis still settles, and the handler classifies the image as         *)
(* FullColor.                                                              *)
C21_RejectedAnalysisStops ==
  handler.route \in Routes =>
    /\ handler.threw = {}
    /\ (handler.pc \in {"classified", "await", "responded"}
          /\ "rejected" \in {handler.isIllustration, handler.isIllustration2})
         => imageType = "FullColor"

(* C22: every comparison of a distance with an integer threshold is made   *)
(* on floor(distance), in compare.ts as in imghsl.ts and part_000: a       *)
(* colour at a distance strictly between T and T + 1 of a parent is        *)
(* merged into it, so two parents of the clustered histogram always have   *)
(* floor(distance) > T.                                                    *)
C22_FlooredComparison ==
  (entry \in HistogramEntries /\ pc = "phase3") =>
    LET T == CASE entry = "imghsl" -> 5
               [] entry = "part000" -> 15
               [] OTHER -> 12
    IN \A k, m \in 1..Len(clusteredHistogram) :
         k # m => FloorDeltaE(clusteredHistogram[k].color,
                              clusteredHistogram[m].color) > T

(* The clusters of hist that are dominant, and those that are accents.     *)
DominantAt(hist, total) ==
  {k \in 1..Len(hist) : hist[k].count * 1000 >= 15 * total}

AccentAt(hist, total) ==
  {k \in 1..Len(hist) : k \notin DominantAt(hist, total)
                        /\ Saturation(hist[k].color) >= 30}

(* C23: Phase 3 of part_000 keeps exactly the clusters of count at least   *)
(* 1.5% of totalPixelCount, whatever their saturation, and the at most 3   *)
(* highest-count clusters among the other ones of saturation at least      *)
(* 0.30; everything else is discarded, so at most |dominant| + 3 clusters  *)
(* are kept.                                                               *)
C23_DominantPlusAccents ==
  (entry = "part000" /\ pc = "phase4") =>
    LET hist == clusteredHistogram
        dominant == DominantAt(hist, totalPixelCount)
        accents == AccentAt(hist, totalPixelCount)
        kept == {k \in 1..Len(hist) : hist[k] \in Range(frequentColors)}
    IN /\ Range(frequentColors) \subseteq Range(hist)
       /\ Len(frequentColors) = Cardinality(kept)
       /\ dominant \subseteq kept
       /\ kept \subseteq dominant \cup accents
       /\ Cardinality(kept \cap accents) = Min(3, Cardinality(accents))
       /\ \A a \in kept \cap accents : \A b \in accents \ kept :
            hist[a].count >= hist[b].count
       /\ Len(frequentColors) <= Cardinality(dominant) + 3

(* C23 witness: one dominant cluster and four accents; the accent of the   *)
(* least count was discarded and the three others kept.                    *)
C23_Witness ==
  /\ entry = "part000" /\ pc = "phase4"
  /\ Cardinality(DominantAt(clusteredHistogram, totalPixelCount)) = 1
  /\ Cardinality(AccentAt(clusteredHistogram, totalPixelCount)) = 4
  /\ Len(frequentColors) = 4
  /\ \E b \in AccentAt(clusteredHistogram, totalPixelCount) :
       /\ clusteredHistogram[b] \notin Range(frequentColors)
       /\ \A a \in AccentAt(clusteredHistogram, totalPixelCount) \ {b} :
            clusteredHistogram[a].count > clusteredHistogram[b].count

(* C24: detectSpotColors asks k-means for min(32, validPixelCount)         *)
(* clusters: never more than there are valid samples, and at least one     *)
(* whenever the clustering is reached.                                     *)
C24_ClusterCount ==
  /\ (entry = SPOT /\ pc \in {"stage4", "merge"}) =>
       /\ Len(clusters) = Min(32, validPixelCount)
       /\ Len(clusters) <= validPixelCount
       /\ Len(clusters) >= 1
  /\ \A valid \in 1..MaxValidPixelCount :
       /\ ClusterCount(valid) = (IF valid < 32 THEN valid ELSE 32)
       /\ ClusterCount(valid) \in 1..valid

(* C24 witness: k-means was asked for as many clusters as there were       *)
(* valid samples, three.                                                   *)
C24_Witness ==
  /\ entry = SPOT /\ pc = "stage4"
  /\ validPixelCount = 3 /\ Len(clusters) = 3

(* C25: a centroid survives the population filter of detectSpotColors if   *)
(* and only if its population is at least 1% of validPixelCount; the       *)
(* populations counted over all centroids sum to at most validPixelCount;  *)
(* when no centroid survives the result is the empty palette.              *)
C25_PopulationFilter ==
  (entry = SPOT /\ clusters # << >> /\ pc \in {"merge", "done"}) =>
    LET Survives(k) == clusters[k].population * 100 >= validPixelCount
        survivors == {k \in 1..Len(clusters) : Survives(k)}
    IN /\ Len(filteredClusters) = Cardinality(survivors)
       /\ \A k \in 1..Len(clusters) :
            Survives(k) <=>
              \E m \in 1..Len(filteredClusters) :
                 /\ filteredClusters[m].centroid = clusters[k].centroid
                 /\ filteredClusters[m].population = clusters[k].population
       /\ SumSeq([k \in 1..Len(clusters) |-> clusters[k].population])
            <= validPixelCount
       /\ (survivors = {} /\ pc = "done") => result = << >>

(* C25 witness: of 101 samples, a centroid with one sample (less than 1%)  *)
(* was discarded and a centroid with two samples kept.                     *)
C25_Witness ==
  /\ entry = SPOT /\ pc = "merge" /\ validPixelCount = 101
  /\ \E k, m \in 1..Len(clusters) :
       /\ clusters[k].population = 1 /\ clusters[m].population = 2
       /\ \A q \in 1..Len(filteredClusters) :
            filteredClusters[q].centroid # clusters[k].centroid
       /\ \E q \in 1..Len(filteredClusters) :
            filteredClusters[q].centroid = clusters[m].centroid

(* Sum of the populations of a list of clusters.                           *)
Population(cl) == SumSeq([k \in 1..Len(cl) |-> cl[k].population])

(* One iteration of the merge loop as a relation: cluster c is merged into *)
(* the first cluster of before within the threshold, or appended.          *)
Merged(before, c, after) ==
  LET close == {k \in 1..Len(before) :
                  Abs(c.labColor - before[k].labColor)
                    < MERGE_THRESHOLD_DELTA_E * 100}
  IN IF close = {}
     THEN after = Append(before, c)
     ELSE LET t == CHOOSE k \in close : \A m \in close : k <= m
              pop == before[t].population + c.population
              weighted == before[t].labColor * before[t].population
                            + c.labColor * c.population
          IN /\ Len(after) = Len(before)
             /\ \A k \in 1..Len(before) : k # t => after[k] = before[k]
             /\ after[t].population = pop
             /\ after[t].labColor * pop <= weighted
             /\ weighted < (after[t].labColor + 1) * pop

(* C26: in the merge pass of detectSpotColors each filtered centroid,      *)
(* taken in population-descending order, is merged into the first          *)
(* accepted cluster within the merge threshold, whose population becomes   *)
(* the sum and whose LAB value the population-weighted average, or else    *)
(* is appended; the populations of mergedClusters sum to those of          *)
(* filteredClusters at the end of the pass, and the filtered centroids     *)
(* are not changed by the merges.                                          *)
C26_MergePass ==
  [][(entry = SPOT /\ pc = "merge" /\ j <= Len(filteredClusters)) =>
       /\ \A k \in 1..(Len(filteredClusters) - 1) :
            filteredClusters[k].population >= filteredClusters[k + 1].population
       /\ Merged(mergedClusters, filteredClusters[j], mergedClusters')
       /\ filteredClusters' = filteredClusters
       /\ Population(mergedClusters')
            = Population(SubSeq(filteredClusters, 1, j))
       /\ j' = j + 1]_vars

(* C26 witness: the pass is over; a centroid was merged into an accepted   *)
(* cluster, whose population is the sum and whose LAB value has moved off  *)
(* its centroid.                                                           *)
C26_Witness ==
  /\ entry = SPOT /\ pc = "merge" /\ j > Len(filteredClusters)
  /\ Len(filteredClusters) = 3 /\ Len(mergedClusters) = 2
  /\ Population(mergedClusters) = Population(filteredClusters)
  /\ \E k \in 1..2 : mergedClusters[k].labColor # mergedClusters[k].centroid

(* 1 for a sample that passes the alpha filter of the histogram variants   *)
(* (alpha > 128), else 0.                                                  *)
PassedAlpha(p) == IF p.a > 128 THEN 1 ELSE 0

(* C27: in the histogram variants totalPixelCount counts the samples that  *)
(* passed the alpha filter, the counts of the raw histogram sum to         *)
(* totalPixelCount and are each at least 1, and the counts of the          *)
(* clustered histogram sum to totalPixelCount again.                       *)
C27_CountsConserved ==
  [][(entry \in HistogramEntries) =>
       /\ (pc = "sample" /\ i < length) =>
            totalPixelCount' = totalPixelCount + PassedAlpha(px')
       /\ ~(pc = "sample" /\ i < length) => totalPixelCount' = totalPixelCount
       /\ SumCounts(colorCounts') = totalPixelCount'
       /\ \A k \in 1..Len(colorCounts') : colorCounts'[k].count >= 1
       /\ pc' = "phase3" =>
            totalPixelCount' = SumCounts(clusteredHistogram')]_vars

(* C27 witness: two samples passed the filter with different colours, and  *)
(* clustering has put both under one parent.                               *)
C27_Witness ==
  /\ entry \in HistogramEntries /\ pc = "phase3"
  /\ Len(colorCounts) = 2 /\ totalPixelCount = 2
  /\ Len(clusteredHistogram) = 1 /\ clusteredHistogram[1].count = 2

(* C28: after the noise clustering every key of the clustered histogram   *)
(* is a key of the raw histogram, and two distinct parents are farther     *)
(* apart than the clustering threshold: floor(distance) > 5 in imghsl.ts,  *)
(* floor(distance) > 15 in part_000, distance > 12 in compare.ts.          *)
C28_ParentsSeparated ==
  (entry \in HistogramEntries /\ pc = "phase3") =>
    /\ \A k \in 1..Len(clusteredHistogram) :
         \E r \in 1..Len(colorCounts) :
           colorCounts[r].color = clusteredHistogram[k].color
    /\ \A k, m \in 1..Len(clusteredHistogram) :
         k # m =>
           LET a == clusteredHistogram[k].color
               b == clusteredHistogram[m].color
           IN CASE entry = "imghsl" -> FloorDeltaE(a, b) > 5
                [] entry = "part000" -> FloorDeltaE(a, b) > 15
                [] OTHER -> DeltaE10(a, b) > 12 * 10

(* C28 witness: compare.ts has clustered three raw colours under two       *)
(* parents that are 12.6 apart.                                            *)
C28_Witness ==
  /\ entry = "compare" /\ pc = "phase3"
  /\ Len(colorCounts) = 3 /\ Len(clusteredHistogram) = 2
  /\ DeltaE10(clusteredHistogram[1].color, clusteredHistogram[2].color) = 126

(* The clusters of the clustered histogram that the three-tier filter of   *)
(* compare.ts keeps.                                                       *)
KeptClusters ==
  LET Kept(x) == KeptByTier(x, totalPixelCount)
  IN SelectSeq(clusteredHistogram, Kept)

(* C29: with a non-empty design table, the count fields of the list        *)
(* compare.ts returns sum to the counts of the clusters the three-tier     *)
(* filter kept.                                                            *)
C29_KeptCountsReturned ==
  (entry = "compare" /\ outcome = "resolved" /\ designcolors # << >>) =>
    SumCounts(result) = SumCounts(KeptClusters)

(* C29 witness: the filter discarded one cluster and kept two, and both    *)
(* kept clusters were counted under the same design colour.                *)
C29_Witness ==
  /\ entry = "compare" /\ outcome = "resolved" /\ designcolors # << >>
  /\ Len(clusteredHistogram) = 3 /\ Len(KeptClusters) = 2
  /\ Len(result) = 1
  /\ result[1].count = KeptClusters[1].count + KeptClusters[2].count

(* index.vue: an upload whose read has loaded settles, and the step that   *)
(* settles it leaves isLoading false.                                      *)
LoadedUploadsSettle ==
  /\ \A u \in 1..MaxUploads :
       (page.file = "index.vue" /\ u <= Len(page.uploads)
          /\ page.uploads[u] \in {"fetch", "json", "errorJson", "image"})
         ~> (u <= Len(page.uploads)
               /\ page.uploads[u] \in {"failed", "shown"})
  /\ [][\A u \in 1..Len(page.uploads) :
          (page.file = "index.vue"
             /\ page.uploads[u] \notin {"failed", "shown"}
             /\ page'.uploads[u] \in {"failed", "shown"})
            => ~page'.isLoading]_vars

(* C30: every upload that sets isLoading to true is followed by isLoading  *)
(* false; errorMessage is non-null after an upload has failed, and null    *)
(* when an upload starts.                                                  *)
C30_LoadingCleared ==
  /\ (page.file \in UploadPages /\ page.isLoading) ~> ~page.isLoading
  /\ [][\A u \in 1..Len(page.uploads) :
          (page.file = "index.vue" /\ page.uploads[u] # "failed"
             /\ page'.uploads[u] = "failed")
            => page'.errorMessage # << >>]_vars
  /\ [][(page.file = "index.vue" /\ Len(page'.uploads) > Len(page.uploads))
          => page'.errorMessage = << >>]_vars

=============================================================================
